---- MODULE Spec2Model ----
(***************************************************************************)
(* Valuation-and-signal pipeline, filter engine, session state, manage     *)
(* dialog and instrument store of the dividend screener (src/app.py,       *)
(* src/config.py, src/models, src/data).                                   *)
(*                                                                         *)
(* Numbers.  A pandas cell is modelled as                                  *)
(*   <<>>        NaN / None (undefined),                                   *)
(*   <<n, d>>    the rational n/d with d > 0,                              *)
(*   <<"abc">>   a non-numeric string.                                     *)
(* Comparisons are done by cross-multiplication, so they are exact; every  *)
(* comparison with NaN is FALSE, as in numpy.  The inputs of the model are *)
(* small integers, for which the correctly rounded float quotients of the  *)
(* program compare with the float thresholds exactly as the rationals do.  *)
(*                                                                         *)
(* Specifications.                                                         *)
(*   SpecSignal     both classifier forms on one (discount, yield, roe)    *)
(*   SpecFairValue  both Graham forms on one (BVPS, EPS) pair of raw cells *)
(*   SpecProcess    process_dataframe over a loaded collection             *)
(*   SpecFilter     process_dataframe, then apply_filters with a filter    *)
(*                  state                                                  *)
(*   SpecPreset     the script runs of a session over a loaded store: the  *)
(*                  filter widgets, CLEAR and the preset buttons           *)
(*   SpecCrud       the script runs and the manage dialog (Add New, Edit   *)
(*                  Data, Delete Data) over the session and the store      *)
(*   SpecPresetCall SpecPreset with apply_preset called with any name,     *)
(*                  one of them missing from FILTER_PRESETS                *)
(*   SpecMarket     the script runs as time passes: the staleness of the   *)
(*                  market data, MANAGE, REFRESH and Add New               *)
(*   SpecManual     Edit Data on the manual fair value of one instrument   *)
(*   SpecFetch      fetch_all_tickers on a list of tickers, each provider  *)
(*                  call returning a value or raising                      *)
(***************************************************************************)
EXTENDS Integers, Sequences, FiniteSets, TLC

VARIABLES cls, val, df, df_processed, filters, df_filtered, stage,
          session, store, event, report, clock, market, fetched

vars == <<cls, val, df, df_processed, filters, df_filtered, stage,
          session, store, event, report,
          clock, market, fetched>>

----------------------------------------------------------------------------
(* Cells and arithmetic                                                    *)

NaN == <<>>

Malformed == <<"abc">>

Num(n) == <<n, 1>>

Pct(n) == <<n, 100>>

isna(x) == x = NaN

notna(x) == x # NaN

IsNumber(x) == Len(x) = 2

\* pd.to_numeric(col, errors='coerce'): anything that is not a number is NaN
to_numeric(x) == IF IsNumber(x) THEN x ELSE NaN

\* utils.formatters.coerce_float: None -> NaN, float(x), ValueError -> NaN
coerce_float(x) == IF IsNumber(x) THEN x ELSE NaN

fillna0(x) == IF isna(x) THEN Num(0) ELSE x

GE(x, y) == notna(x) /\ notna(y) /\ x[1] * y[2] >= y[1] * x[2]

LE(x, y) == notna(x) /\ notna(y) /\ x[1] * y[2] <= y[1] * x[2]

GT(x, y) == notna(x) /\ notna(y) /\ x[1] * y[2] > y[1] * x[2]

LT(x, y) == notna(x) /\ notna(y) /\ x[1] * y[2] < y[1] * x[2]

\* equality of values: both undefined, or the same rational
SameValue(x, y) == IF isna(x) \/ isna(y) THEN isna(x) /\ isna(y)
                   ELSE x[1] * y[2] = y[1] * x[2]

Mul(x, y) == IF isna(x) \/ isna(y) THEN NaN ELSE <<x[1] * y[1], x[2] * y[2]>>

Sub(x, y) == IF isna(x) \/ isna(y) THEN NaN
             ELSE <<x[1] * y[2] - y[1] * x[2], x[2] * y[2]>>

\* x / y for y > 0.  Where y <= 0 numpy gives inf, NaN or a negative
\* quotient; process_dataframe masks those elements out with np.where, so
\* they are never read and are NaN here
Div(x, y) == IF isna(x) \/ isna(y) THEN NaN
             ELSE IF y[1] > 0 THEN <<x[1] * y[2], x[2] * y[1]>>
             ELSE NaN

RECURSIVE SqrtSearch(_, _, _)
\* the largest r in lo..hi with r * r <= n, by bisection
SqrtSearch(n, lo, hi) ==
    IF lo = hi THEN lo
    ELSE LET mid == (lo + hi + 1) \div 2
         IN IF mid * mid <= n THEN SqrtSearch(n, mid, hi) ELSE SqrtSearch(n, lo, mid - 1)

\* integer square root of n >= 0
ISqrt(n) == SqrtSearch(n, 0, IF n < 1000 THEN n ELSE 1000)

\* np.sqrt: NaN for a negative argument (a warning, not an exception).
\* sqrt(n/d) = sqrt(n*d)/d; the BVPS and EPS cells of the model make n*d a
\* perfect square below 1000^2, so the root is exact
Sqrt(x) == IF isna(x) THEN NaN
           ELSE IF x[1] < 0 THEN NaN
           ELSE <<ISqrt(x[1] * x[2]), x[2]>>

Get(row, key, default) == IF key \in DOMAIN row THEN row[key] ELSE default

----------------------------------------------------------------------------
(* config.THRESHOLDS                                                       *)

\* mutant: the yield floor set at 5%
MIN_YIELD_low == Pct(5)

MIN_YIELD == Pct(8)

MIN_ROE_BASIC == Num(8)

EXCEPTIONAL_YIELD == Pct(10)

HIGH_DISCOUNT == Pct(20)

EXCELLENT_ROE == Num(15)

GOOD_ROE == Num(10)

FAIR_DISCOUNT == Pct(5)

GOOD_DISCOUNT == Pct(15)

GRAHAM_MULTIPLIER == <<45, 2>>

SIGNAL_OPTIONS == {"STRONG BUY", "BUY", "ACCUMULATE", "WAIT", "WAIT FOR DIP"}

----------------------------------------------------------------------------
(* Signal classifier                                                       *)

\* mutant: the accumulate mask does not exclude the rows already labelled
\* STRONG BUY or BUY
signal_element_overlap(discount, div_yield, roe) ==
    LET valid_mask == notna(discount) /\ notna(div_yield) /\ notna(roe)
        yield_ok == GE(div_yield, MIN_YIELD)
        s1 == IF valid_mask /\ LT(discount, Num(0)) /\ yield_ok THEN "WAIT FOR DIP" ELSE "WAIT"
        exceptional == GE(div_yield, EXCEPTIONAL_YIELD) /\ GE(discount, HIGH_DISCOUNT)
        strong_buy == GE(discount, HIGH_DISCOUNT) /\ GE(roe, EXCELLENT_ROE) /\ yield_ok
        s2 == IF valid_mask /\ strong_buy THEN "STRONG BUY" ELSE s1
        buy == GE(discount, GOOD_DISCOUNT) /\ GE(roe, GOOD_ROE) /\ yield_ok /\ ~strong_buy
        s3 == IF valid_mask /\ buy THEN "BUY" ELSE s2
        accumulate == \/ (GE(discount, FAIR_DISCOUNT) /\ GE(roe, MIN_ROE_BASIC) /\ yield_ok)
                      \/ (exceptional /\ yield_ok)
    IN IF valid_mask /\ accumulate THEN "ACCUMULATE" ELSE s3

\* mutant: STRONG BUY and BUY masks without the yield floor
signal_element_no_yield_gate(discount, div_yield, roe) ==
    LET valid_mask == notna(discount) /\ notna(div_yield) /\ notna(roe)
        yield_ok == GE(div_yield, MIN_YIELD)
        s1 == IF valid_mask /\ LT(discount, Num(0)) /\ yield_ok THEN "WAIT FOR DIP" ELSE "WAIT"
        exceptional == GE(div_yield, EXCEPTIONAL_YIELD) /\ GE(discount, HIGH_DISCOUNT)
        strong_buy == GE(discount, HIGH_DISCOUNT) /\ GE(roe, EXCELLENT_ROE)
        s2 == IF valid_mask /\ strong_buy THEN "STRONG BUY" ELSE s1
        buy == GE(discount, GOOD_DISCOUNT) /\ GE(roe, GOOD_ROE) /\ ~strong_buy
        s3 == IF valid_mask /\ buy THEN "BUY" ELSE s2
        accumulate == /\ \/ (GE(discount, FAIR_DISCOUNT) /\ GE(roe, MIN_ROE_BASIC) /\ yield_ok)
                         \/ (exceptional /\ yield_ok)
                      /\ ~strong_buy
                      /\ ~buy
    IN IF valid_mask /\ accumulate THEN "ACCUMULATE" ELSE s3

\* mutant: no valid_mask, the masks are applied wherever their comparisons hold
signal_element_no_valid_mask(discount, div_yield, roe) ==
    LET yield_ok == GE(div_yield, MIN_YIELD)
        s1 == IF LT(discount, Num(0)) /\ yield_ok THEN "WAIT FOR DIP" ELSE "WAIT"
        exceptional == GE(div_yield, EXCEPTIONAL_YIELD) /\ GE(discount, HIGH_DISCOUNT)
        strong_buy == GE(discount, HIGH_DISCOUNT) /\ GE(roe, EXCELLENT_ROE) /\ yield_ok
        s2 == IF strong_buy THEN "STRONG BUY" ELSE s1
        buy == GE(discount, GOOD_DISCOUNT) /\ GE(roe, GOOD_ROE) /\ yield_ok /\ ~strong_buy
        s3 == IF buy THEN "BUY" ELSE s2
        accumulate == /\ \/ (GE(discount, FAIR_DISCOUNT) /\ GE(roe, MIN_ROE_BASIC) /\ yield_ok)
                         \/ (exceptional /\ yield_ok)
                      /\ ~strong_buy
                      /\ ~buy
    IN IF accumulate THEN "ACCUMULATE" ELSE s3

\* one element of the Series computed by assign_signals_vectorized: the
\* masks are elementwise, each .where() overwrites the label where its mask
\* holds
signal_element(discount, div_yield, roe) ==
    LET s0 == "WAIT"
        valid_mask == notna(discount) /\ notna(div_yield) /\ notna(roe)
        yield_ok == GE(div_yield, MIN_YIELD)
        overvalued == LT(discount, Num(0))
        s1 == IF valid_mask /\ overvalued /\ yield_ok THEN "WAIT FOR DIP" ELSE s0
        roe_basic == GE(roe, MIN_ROE_BASIC)
        exceptional == GE(div_yield, EXCEPTIONAL_YIELD) /\ GE(discount, HIGH_DISCOUNT)
        strong_buy == GE(discount, HIGH_DISCOUNT) /\ GE(roe, EXCELLENT_ROE) /\ yield_ok
        s2 == IF valid_mask /\ strong_buy THEN "STRONG BUY" ELSE s1
        buy == GE(discount, GOOD_DISCOUNT) /\ GE(roe, GOOD_ROE) /\ yield_ok /\ ~strong_buy
        s3 == IF valid_mask /\ buy THEN "BUY" ELSE s2
        accumulate == /\ \/ (GE(discount, FAIR_DISCOUNT) /\ roe_basic /\ yield_ok)
                         \/ (exceptional /\ yield_ok)
                      /\ ~strong_buy
                      /\ ~buy
        s4 == IF valid_mask /\ accumulate THEN "ACCUMULATE" ELSE s3
    IN s4

\* the three Series share the index of discount
assign_signals_vectorized(discount, div_yield, roe) ==
    [i \in DOMAIN discount |-> signal_element(discount[i], div_yield[i], roe[i])]

\* mutant: the overvaluation check made before the yield floor
assign_signal_dip_first(row) ==
    LET discount == Get(row, "Discount", Num(0))
        div_yield == Get(row, "DivYield", Num(0))
        roe == Get(row, "ROE", Num(0))
    IN IF isna(discount) \/ isna(div_yield) \/ isna(roe) THEN "WAIT"
       ELSE IF LT(discount, Num(0)) THEN "WAIT FOR DIP"
       ELSE IF LT(div_yield, MIN_YIELD) THEN "WAIT"
       ELSE IF LT(roe, MIN_ROE_BASIC)
            THEN IF GE(div_yield, EXCEPTIONAL_YIELD) /\ GE(discount, HIGH_DISCOUNT)
                 THEN "ACCUMULATE"
                 ELSE "WAIT"
       ELSE IF GE(discount, HIGH_DISCOUNT) /\ GE(roe, EXCELLENT_ROE) THEN "STRONG BUY"
       ELSE IF GE(discount, GOOD_DISCOUNT) /\ GE(roe, GOOD_ROE) THEN "BUY"
       ELSE IF GE(discount, FAIR_DISCOUNT) THEN "ACCUMULATE"
       ELSE "WAIT"

\* mutant: the low-ROE exception granted on exceptional yield or deep
\* discount, not on both
assign_signal_or_exception(row) ==
    LET discount == Get(row, "Discount", Num(0))
        div_yield == Get(row, "DivYield", Num(0))
        roe == Get(row, "ROE", Num(0))
    IN IF isna(discount) \/ isna(div_yield) \/ isna(roe) THEN "WAIT"
       ELSE IF LT(div_yield, MIN_YIELD) THEN "WAIT"
       ELSE IF LT(discount, Num(0)) THEN "WAIT FOR DIP"
       ELSE IF LT(roe, MIN_ROE_BASIC)
            THEN IF GE(div_yield, EXCEPTIONAL_YIELD) \/ GE(discount, HIGH_DISCOUNT)
                 THEN "ACCUMULATE"
                 ELSE "WAIT"
       ELSE IF GE(discount, HIGH_DISCOUNT) /\ GE(roe, EXCELLENT_ROE) THEN "STRONG BUY"
       ELSE IF GE(discount, GOOD_DISCOUNT) /\ GE(roe, GOOD_ROE) THEN "BUY"
       ELSE IF GE(discount, FAIR_DISCOUNT) THEN "ACCUMULATE"
       ELSE "WAIT"

\* mutant: the low-ROE exception granted on exceptional yield alone
assign_signal_exception_on_yield(row) ==
    LET discount == Get(row, "Discount", Num(0))
        div_yield == Get(row, "DivYield", Num(0))
        roe == Get(row, "ROE", Num(0))
    IN IF isna(discount) \/ isna(div_yield) \/ isna(roe) THEN "WAIT"
       ELSE IF LT(div_yield, MIN_YIELD) THEN "WAIT"
       ELSE IF LT(discount, Num(0)) THEN "WAIT FOR DIP"
       ELSE IF LT(roe, MIN_ROE_BASIC)
            THEN IF GE(div_yield, EXCEPTIONAL_YIELD) THEN "ACCUMULATE" ELSE "WAIT"
       ELSE IF GE(discount, HIGH_DISCOUNT) /\ GE(roe, EXCELLENT_ROE) THEN "STRONG BUY"
       ELSE IF GE(discount, GOOD_DISCOUNT) /\ GE(roe, GOOD_ROE) THEN "BUY"
       ELSE IF GE(discount, FAIR_DISCOUNT) THEN "ACCUMULATE"
       ELSE "WAIT"

assign_signal(row) ==
    LET discount == Get(row, "Discount", Num(0))
        div_yield == Get(row, "DivYield", Num(0))
        roe == Get(row, "ROE", Num(0))
    IN IF isna(discount) \/ isna(div_yield) \/ isna(roe) THEN "WAIT"
       ELSE IF LT(div_yield, MIN_YIELD) THEN "WAIT"
       ELSE IF LT(discount, Num(0)) THEN "WAIT FOR DIP"
       ELSE IF LT(roe, MIN_ROE_BASIC)
            THEN IF GE(div_yield, EXCEPTIONAL_YIELD) /\ GE(discount, HIGH_DISCOUNT)
                 THEN "ACCUMULATE"
                 ELSE "WAIT"
       ELSE IF GE(discount, HIGH_DISCOUNT) /\ GE(roe, EXCELLENT_ROE) THEN "STRONG BUY"
       ELSE IF GE(discount, GOOD_DISCOUNT) /\ GE(roe, GOOD_ROE) THEN "BUY"
       ELSE IF GE(discount, FAIR_DISCOUNT) THEN "ACCUMULATE"
       ELSE "WAIT"

----------------------------------------------------------------------------
(* Valuation engine                                                        *)

\* mutant: the .where() mask left out, so sqrt(0) = 0 stands for "no data"
graham_element_no_mask(bvps, eps) ==
    Sqrt(Mul(Mul(GRAHAM_MULTIPLIER, fillna0(bvps)), fillna0(eps)))

graham_element(bvps, eps) ==
    LET fair_value == Sqrt(Mul(Mul(GRAHAM_MULTIPLIER, fillna0(bvps)), fillna0(eps)))
    IN IF GT(bvps, Num(0)) /\ GT(eps, Num(0)) THEN fair_value ELSE NaN

compute_fair_value_vectorized(bvps_series, eps_series) ==
    [i \in DOMAIN bvps_series |-> graham_element(bvps_series[i], eps_series[i])]

compute_fair_value(row) ==
    LET bvps == coerce_float(Get(row, "BVPS", NaN))
        eps == coerce_float(Get(row, "EPS", NaN))
    IN IF isna(bvps) \/ isna(eps) \/ LE(bvps, Num(0)) \/ LE(eps, Num(0)) THEN NaN
       ELSE Sqrt(Mul(Mul(GRAHAM_MULTIPLIER, bvps), eps))

----------------------------------------------------------------------------
(* Processing pass                                                         *)

numeric_cols == {"BVPS", "EPS", "ROE", "DivTTM", "DPR", "CurrentPrice", "ManualFairValue"}

\* mutant: the FairValue of an earlier pass is taken as the manual value
coerce_row_keeps_fair_value(row) ==
    [k \in DOMAIN row |->
        IF k = "ManualFairValue" /\ "FairValue" \in DOMAIN row THEN row.FairValue
        ELSE IF k \in numeric_cols THEN to_numeric(row[k]) ELSE row[k]]

\* df[col] = pd.to_numeric(df[col], errors='coerce') for the numeric columns
\* the frame has
coerce_row(row) ==
    [k \in DOMAIN row |-> IF k \in numeric_cols THEN to_numeric(row[k]) ELSE row[k]]

\* df['UsesManualFV']
uses_manual_fv(manual) == notna(manual) /\ GT(manual, Num(0))

\* mutant: the Graham value preferred whenever it is defined
fair_value_where_graham_first(manual, graham) ==
    IF notna(graham) THEN graham ELSE manual

\* df['FairValue'] = np.where(manual.notna() & (manual > 0), manual, graham)
fair_value_where(manual, graham) ==
    IF notna(manual) /\ GT(manual, Num(0)) THEN manual ELSE graham

\* mutant: the price is not checked
discount_where_any_price(fair_value, price) ==
    IF GT(fair_value, Num(0)) THEN Div(Sub(fair_value, fillna0(price)), fair_value) ELSE NaN

\* df['Discount']
discount_where(fair_value, price) ==
    IF GT(fair_value, Num(0)) /\ GT(price, Num(0))
    THEN Div(Sub(fair_value, price), fair_value)
    ELSE NaN

\* df['DivYield']
div_yield_where(div_ttm, price) ==
    IF GT(price, Num(0)) THEN Div(div_ttm, price) ELSE NaN

process_dataframe(d) ==
    IF d = <<>> THEN d
    ELSE
    LET c == <<>> \o [i \in DOMAIN d |-> coerce_row(d[i])]
        GrahamFairValue ==
            <<>> \o compute_fair_value_vectorized([i \in DOMAIN c |-> c[i].BVPS],
                                          [i \in DOMAIN c |-> c[i].EPS])
        \* a frame without the column gets it, all NaN; each column is
        \* written <<>> \o [...]: the same sequence, evaluated once
        ManualFairValue == [i \in DOMAIN c |-> Get(c[i], "ManualFairValue", NaN)]
        FairValue == <<>> \o [i \in DOMAIN c |->
                        fair_value_where(ManualFairValue[i], GrahamFairValue[i])]
        UsesManualFV == [i \in DOMAIN c |-> uses_manual_fv(ManualFairValue[i])]
        Discount == <<>> \o [i \in DOMAIN c |-> discount_where(FairValue[i], c[i].CurrentPrice)]
        DivYield == <<>> \o [i \in DOMAIN c |-> div_yield_where(c[i].DivTTM, c[i].CurrentPrice)]
        Signal == assign_signals_vectorized(Discount, DivYield,
                                            [i \in DOMAIN c |-> c[i].ROE])
    IN <<>> \o [i \in DOMAIN d |->
          [Ticker |-> c[i].Ticker, BVPS |-> c[i].BVPS, EPS |-> c[i].EPS,
           ROE |-> c[i].ROE, DivTTM |-> c[i].DivTTM, DPR |-> c[i].DPR,
           CurrentPrice |-> c[i].CurrentPrice, Sector |-> c[i].Sector,
           ManualFairValue |-> ManualFairValue[i],
           GrahamFairValue |-> GrahamFairValue[i],
           FairValue |-> FairValue[i], UsesManualFV |-> UsesManualFV[i],
           Discount |-> Discount[i], DivYield |-> DivYield[i], Signal |-> Signal[i]]]

----------------------------------------------------------------------------
(* Filter engine                                                           *)

\* mutant: the discount and yield thresholds compared on the percentage
\* scale, without the division by 100
filter_conditions_unscaled(f) ==
    (IF GT(f.discount_min, Num(0)) THEN <<<<"Discount", ">=", f.discount_min>>>> ELSE <<>>)
    \o (IF GT(f.yield_min, Num(0)) THEN <<<<"DivYield", ">=", f.yield_min>>>> ELSE <<>>)
    \o (IF GT(f.roe_min, Num(0)) THEN <<<<"ROE", ">=", f.roe_min>>>> ELSE <<>>)
    \o (IF LT(f.dpr_max, Num(1000)) THEN <<<<"DPR", "<=", f.dpr_max>>>> ELSE <<>>)

\* the numeric clauses, each the parsed form of "col op value"
filter_conditions(f) ==
    (IF GT(f.discount_min, Num(0))
        THEN <<<<"Discount", ">=", Div(f.discount_min, Num(100))>>>> ELSE <<>>)
    \o (IF GT(f.yield_min, Num(0))
        THEN <<<<"DivYield", ">=", Div(f.yield_min, Num(100))>>>> ELSE <<>>)
    \o (IF GT(f.roe_min, Num(0)) THEN <<<<"ROE", ">=", f.roe_min>>>> ELSE <<>>)
    \o (IF LT(f.dpr_max, Num(1000)) THEN <<<<"DPR", "<=", f.dpr_max>>>> ELSE <<>>)

\* mutant: an undefined value satisfies the comparison
condition_holds_or_undefined(row, cond) ==
    \/ isna(row[cond[1]])
    \/ IF cond[2] = ">=" THEN GE(row[cond[1]], cond[3]) ELSE LE(row[cond[1]], cond[3])

condition_holds(row, cond) ==
    IF cond[2] = ">=" THEN GE(row[cond[1]], cond[3]) ELSE LE(row[cond[1]], cond[3])

\* mutant: the selection loses its first row
query_skip_first(d, conditions) ==
    LET kept == SelectSeq(d, LAMBDA row :
                    \A j \in DOMAIN conditions : condition_holds(row, conditions[j]))
    IN IF kept = <<>> THEN kept ELSE Tail(kept)

\* filtered.query(" and ".join(conditions))
query(d, conditions) ==
    SelectSeq(d, LAMBDA row : \A j \in DOMAIN conditions : condition_holds(row, conditions[j]))

RECURSIVE filter_each(_, _)
\* the fallback loop: one boolean-mask selection per condition
filter_each(d, conditions) ==
    IF conditions = <<>> THEN d
    ELSE filter_each(SelectSeq(d, LAMBDA row : condition_holds(row, Head(conditions))),
                     Tail(conditions))

\* query_raises: whether DataFrame.query raised, which sends the numeric
\* clauses through the fallback loop
apply_filters(d, f, query_raises) ==
    IF d = <<>> THEN d
    ELSE
    LET filtered0 == d
        filtered1 == IF f.signals # {}
                     THEN SelectSeq(filtered0, LAMBDA row : row.Signal \in f.signals)
                     ELSE filtered0
        filtered2 == IF f.sectors # {}
                     THEN SelectSeq(filtered1, LAMBDA row : row.Sector \in f.sectors)
                     ELSE filtered1
        conditions == filter_conditions(f)
    IN IF conditions # <<>>
       THEN IF query_raises THEN filter_each(filtered2, conditions)
            ELSE query(filtered2, conditions)
       ELSE filtered2

----------------------------------------------------------------------------
(* Inputs of the classifier and of the Graham estimate                     *)

DiscountInputs ==
    {NaN} \cup {Pct(n) : n \in {-5, 0, 3, 4, 5, 14, 15, 16, 19, 20, 22}}
          \cup {<<1, 5>>, <<3, 20>>, <<-1, 180>>}

YieldInputs ==
    {NaN} \cup {Pct(n) : n \in {-1, 3, 7, 8, 9, 10, 12}} \cup {<<2, 25>>, <<1, 10>>}

RoeInputs ==
    {NaN} \cup {Num(n) : n \in {0, 6, 8, 9, 10, 11, 12, 15, 16}}
          \cup {<<79, 10>>, <<149, 10>>}

BvpsInputs == {NaN, Malformed, Num(-10), Num(0), Num(10), Num(40)}

EpsInputs == {NaN, Malformed, Num(-9), Num(0), Num(9), Num(36)}

ClsIdle == [discount |-> NaN, div_yield |-> NaN, roe |-> NaN,
            batch |-> <<>>, scalar |-> ""]

ValIdle == [BVPS |-> NaN, EPS |-> NaN, batch |-> <<>>, scalar |-> <<>>]

NoFilters == [signals |-> {}, sectors |-> {}, discount_min |-> Num(0),
              yield_min |-> Num(0), roe_min |-> Num(0), dpr_max |-> Num(1000)]

NoSession == <<>>

\* what the manage dialog last did: the action and the ticker chosen in it,
\* the Ticker and the MANUAL FAIR VALUE of the form, the messages shown, the
\* results returned by its save_csv calls, and the tickers whose upsert
\* error was logged
NoReport == [action |-> "", selected |-> "", ticker |-> "", manual_fair_value |-> NaN,
             errors |-> {}, toast |-> "", save_calls |-> <<>>, upsert_errors |-> {}]

\* what one call to the provider gives: a value, or the exception it raises
Value(v) == <<"value", v>>
Raises(e) == <<"raise", e>>

\* the "Error" of a result without error: None
NoError == "None"

\* what the provider answers for one ticker.  fast_info: the last_price, NaN
\* where the key is absent; info: currentPrice, regularMarketPrice (NaN for
\* None) and sector; history: the last Close, NaN where the frame is empty
Quote(price, sector) ==
    [fast_info |-> Value(price),
     info |-> Value([currentPrice |-> price, regularMarketPrice |-> price,
                     sector |-> sector]),
     history |-> Value(price)]

\* the provider cannot be reached for the ticker
Unreachable ==
    [fast_info |-> Raises("ConnectionError"), info |-> Raises("ConnectionError"),
     history |-> Raises("ConnectionError")]

\* the market of the sessions: it prices AAAA at 144 and CCCC at 160 and
\* cannot be reached for any other ticker
Market ==
    [t \in {"", "AAAA", "BBBB", "CCCC", "DDDD"} |->
        CASE t = "AAAA" -> Quote(Num(144), "Financials")
          [] t = "CCCC" -> Quote(Num(160), "Energy")
          [] OTHER -> Unreachable]

\* the last batch of lookups: when it ran (-1: not yet), the tickers asked
\* for and the results
NoBatch == [at |-> -1, tickers |-> <<>>, results |-> <<>>]

\* the screener is not running: no session, an empty store
AppIdle ==
    /\ session = NoSession
    /\ store = <<>>
    /\ event = ""
    /\ report = NoReport
    /\ clock = 0
    /\ market = Market
    /\ fetched = NoBatch

----------------------------------------------------------------------------
(* Classifier on one (discount, div_yield, roe) triple, both forms         *)

InitSignal ==
    /\ cls \in [discount : DiscountInputs, div_yield : YieldInputs, roe : RoeInputs,
                 batch : {<<>>}, scalar : {""}]
    /\ val = ValIdle
    /\ df = <<>>
    /\ df_processed = <<>>
    /\ filters = NoFilters
    /\ df_filtered = <<>>
    /\ stage = "loaded"
    /\ AppIdle

\* assign_signals_vectorized on the one-row Series of the triple
AssignSignalsVectorized ==
    /\ cls.batch = <<>>
    /\ cls' = [cls EXCEPT !.batch =
                 assign_signals_vectorized(<<cls.discount>>, <<cls.div_yield>>, <<cls.roe>>)]
    /\ UNCHANGED <<clock, market, fetched, val, df, df_processed, filters, df_filtered, stage,
                 session, store, event, report>>

\* assign_signal on the row holding the triple
AssignSignal ==
    /\ cls.scalar = ""
    /\ cls' = [cls EXCEPT !.scalar =
                 assign_signal([Discount |-> cls.discount, DivYield |-> cls.div_yield,
                                ROE |-> cls.roe])]
    /\ UNCHANGED <<clock, market, fetched, val, df, df_processed, filters, df_filtered, stage,
                 session, store, event, report>>

NextSignal == AssignSignalsVectorized \/ AssignSignal

SpecSignal == InitSignal /\ [][NextSignal]_vars

----------------------------------------------------------------------------
(* Graham estimate on one (BVPS, EPS) pair of raw cells, both forms        *)

InitFairValue ==
    /\ val \in [BVPS : BvpsInputs, EPS : EpsInputs, batch : {<<>>}, scalar : {<<>>}]
    /\ cls = ClsIdle
    /\ df = <<>>
    /\ df_processed = <<>>
    /\ filters = NoFilters
    /\ df_filtered = <<>>
    /\ stage = "loaded"
    /\ AppIdle

\* the batch form as process_dataframe calls it: on the columns after
\* pd.to_numeric(errors='coerce')
ComputeFairValueVectorized ==
    /\ val.batch = <<>>
    /\ val' = [val EXCEPT !.batch =
                 <<compute_fair_value_vectorized(<<to_numeric(val.BVPS)>>,
                                                 <<to_numeric(val.EPS)>>)[1]>>]
    /\ UNCHANGED <<clock, market, fetched, cls, df, df_processed, filters, df_filtered, stage,
                 session, store, event, report>>

\* the row form, on the raw row
ComputeFairValue ==
    /\ val.scalar = <<>>
    /\ val' = [val EXCEPT !.scalar =
                 <<compute_fair_value([BVPS |-> val.BVPS, EPS |-> val.EPS])>>]
    /\ UNCHANGED <<clock, market, fetched, cls, df, df_processed, filters, df_filtered, stage,
                 session, store, event, report>>

NextFairValue == ComputeFairValueVectorized \/ ComputeFairValue

SpecFairValue == InitFairValue /\ [][NextFairValue]_vars

----------------------------------------------------------------------------
(* Processing pass over a loaded collection                                *)

MaxProcRows == 1

TickerOf(i) == <<"AAAA", "BBBB", "CCCC", "DDDD">>[i]

\* Graham value sqrt(22.5 * 40 * 36) = 180, manual value 100: price 80 is a
\* discount of 55.6% or 20%, price 190 a premium; dividends 4 and 20 give
\* yields of 5% and 25% on price 80, 2.1% and 10.5% on price 190
ProcCells ==
    [BVPS : {Num(0), Num(40)},
     EPS : {Malformed, Num(36)},
     ROE : {NaN, Num(6), Num(16)},
     DivTTM : {Malformed, Num(4), Num(20)},
     DPR : {Num(70)},
     CurrentPrice : {NaN, Num(0), Num(80), Num(190)},
     Sector : {"Financials"}]

ManualCells == {NaN, Num(0), Num(100)}

\* the frame of st.session_state.df: unique tickers, and the ManualFairValue
\* column either present in every row or in none
Frame(rows, manual, has_manual) ==
    [i \in DOMAIN rows |->
        IF has_manual
        THEN [Ticker |-> TickerOf(i), ManualFairValue |-> manual[i]] @@ rows[i]
        ELSE [Ticker |-> TickerOf(i)] @@ rows[i]]

InitProcess ==
    /\ \E n \in 0..MaxProcRows :
          \E rows \in [1..n -> ProcCells] :
             \/ \E manual \in [1..n -> ManualCells] : df = Frame(rows, manual, TRUE)
             \/ df = Frame(rows, <<>>, FALSE)
    /\ cls = ClsIdle
    /\ val = ValIdle
    /\ df_processed = <<>>
    /\ filters = NoFilters
    /\ df_filtered = <<>>
    /\ stage = "loaded"
    /\ AppIdle

\* df_processed = process_dataframe(st.session_state.df.copy())
ProcessDataframe ==
    /\ stage = "loaded"
    /\ df_processed' = process_dataframe(df)
    /\ stage' = "processed"
    /\ UNCHANGED <<clock, market, fetched, cls, val, df, filters, df_filtered,
                 session, store, event, report>>

NextProcess == ProcessDataframe

SpecProcess == InitProcess /\ [][NextProcess]_vars

----------------------------------------------------------------------------
(* Filter evaluation over a processed collection                           *)

MaxRows == 2

\* Graham fair value 180: price 144 is a discount of exactly 20%, price 160
\* of 11.1%; dividend 16 on price 160 is a yield of exactly 10%
FilterCells ==
    [BVPS : {Num(40)},
     EPS : {Num(36)},
     ROE : {Num(6), Num(10)},
     DivTTM : {Num(8), Num(16)},
     DPR : {Num(70), Num(120)},
     CurrentPrice : {Num(144), Num(160)},
     Sector : {"Financials"}]
    \cup
    {[BVPS |-> Num(40), EPS |-> Num(36), ROE |-> Num(10), DivTTM |-> Num(16),
      DPR |-> Num(70), CurrentPrice |-> Num(144), Sector |-> "Unknown"],
     [BVPS |-> Num(40), EPS |-> Num(36), ROE |-> Num(10), DivTTM |-> Num(16),
      DPR |-> Num(70), CurrentPrice |-> NaN, Sector |-> "Unknown"],
     [BVPS |-> Num(40), EPS |-> Num(36), ROE |-> NaN, DivTTM |-> Num(16),
      DPR |-> Num(70), CurrentPrice |-> Num(144), Sector |-> "Financials"],
     [BVPS |-> Num(40), EPS |-> Num(36), ROE |-> Num(10), DivTTM |-> Num(16),
      DPR |-> NaN, CurrentPrice |-> Num(144), Sector |-> "Financials"],
     [BVPS |-> Num(40), EPS |-> Num(36), ROE |-> Num(6), DivTTM |-> Num(8),
      DPR |-> Num(120), CurrentPrice |-> Num(160), Sector |-> "Unknown"],
     [BVPS |-> Num(40), EPS |-> Num(36), ROE |-> Num(16), DivTTM |-> Num(16),
      DPR |-> Num(70), CurrentPrice |-> Num(144), Sector |-> "Financials"],
     [BVPS |-> Num(40), EPS |-> Num(36), ROE |-> Num(16), DivTTM |-> Num(16),
      DPR |-> Num(70), CurrentPrice |-> Num(190), Sector |-> "Financials"]}

FilterManualCells == {NaN}

FilterStates ==
    [signals : {{}, {"STRONG BUY", "BUY"}, {"WAIT"}},
     sectors : {{}, {"Financials"}},
     discount_min : {Num(0), Num(20)},
     yield_min : {Num(0), Num(10)},
     roe_min : {Num(0), Num(10)},
     dpr_max : {Num(1000), Num(70)}]

InitFilter ==
    /\ \E n \in 0..MaxRows :
          \E rows \in [1..n -> FilterCells], manual \in [1..n -> FilterManualCells] :
             df = Frame(rows, manual, TRUE)
    /\ cls = ClsIdle
    /\ val = ValIdle
    /\ df_processed = <<>>
    /\ filters = NoFilters
    /\ df_filtered = <<>>
    /\ stage = "loaded"
    /\ AppIdle

\* df_filtered = apply_filters(df_processed, filters)
ApplyFilters ==
    /\ stage = "processed"
    /\ \E f \in FilterStates, query_raises \in BOOLEAN :
          /\ filters' = f
          /\ df_filtered' = apply_filters(df_processed, f, query_raises)
    /\ stage' = "filtered"
    /\ UNCHANGED <<clock, market, fetched, cls, val, df, df_processed,
                 session, store, event, report>>

NextFilter == ProcessDataframe \/ ApplyFilters

SpecFilter == InitFilter /\ [][NextFilter]_vars

----------------------------------------------------------------------------
(* st.session_state: the function from the keys present to their values    *)

SessionSet(s, key, value) ==
    [k \in DOMAIN s \cup {key} |-> IF k = key THEN value ELSE s[k]]

SessionDel(s, key) == [k \in DOMAIN s \ {key} |-> s[k]]

\* mutant: every name bound to the Safe Income bundle
FILTER_PRESETS_uniform ==
    [name \in {"High Yield", "Value Play", "Growth Dividend", "Safe Income"} |->
        [filter_roe_min |-> Num(10), filter_yield_min |-> Num(5),
         filter_signals |-> {"STRONG BUY", "BUY", "ACCUMULATE"},
         filter_discount_min |-> Num(0), filter_dpr_max |-> Num(1000),
         filter_sectors |-> {}]]

FILTER_PRESETS ==
    [name \in {"High Yield", "Value Play", "Growth Dividend", "Safe Income"} |->
        CASE name = "High Yield" ->
                [filter_yield_min |-> Num(8),
                 filter_signals |-> {"STRONG BUY", "BUY", "ACCUMULATE"},
                 filter_roe_min |-> Num(0), filter_discount_min |-> Num(0),
                 filter_dpr_max |-> Num(1000), filter_sectors |-> {}]
          [] name = "Value Play" ->
                [filter_discount_min |-> Num(20), filter_roe_min |-> Num(10),
                 filter_signals |-> {"STRONG BUY", "BUY"},
                 filter_yield_min |-> Num(5),
                 filter_dpr_max |-> Num(1000), filter_sectors |-> {}]
          [] name = "Growth Dividend" ->
                [filter_roe_min |-> Num(15), filter_yield_min |-> Num(5),
                 filter_signals |-> {"STRONG BUY", "BUY"},
                 filter_discount_min |-> Num(0),
                 filter_dpr_max |-> Num(1000), filter_sectors |-> {}]
          [] name = "Safe Income" ->
                [filter_roe_min |-> Num(10), filter_yield_min |-> Num(5),
                 filter_signals |-> {"STRONG BUY", "BUY", "ACCUMULATE"},
                 filter_discount_min |-> Num(0),
                 filter_dpr_max |-> Num(1000), filter_sectors |-> {}]]

\* mutant: the name is left pending whether FILTER_PRESETS has it or not
apply_preset_any_name(s, preset_name) ==
    SessionSet(s, "_pending_preset", preset_name)

\* the preset is not applied here: its name is left for the next run
apply_preset(s, preset_name) ==
    IF preset_name \in DOMAIN FILTER_PRESETS
    THEN SessionSet(s, "_pending_preset", preset_name)
    ELSE s

\* mutant: the signal and sector selections of the preset are not applied
_apply_pending_preset_thresholds_only(s) ==
    IF "_pending_preset" \in DOMAIN s
    THEN LET preset_name == s["_pending_preset"]
             applied ==
                IF preset_name \in DOMAIN FILTER_PRESETS
                THEN LET preset == FILTER_PRESETS[preset_name]
                         keys == DOMAIN preset \ {"filter_signals", "filter_sectors"}
                     IN [k \in DOMAIN s \cup keys |->
                            IF k \in keys THEN preset[k] ELSE s[k]]
                ELSE s
         IN SessionDel(applied, "_pending_preset")
    ELSE s

\* for key, value in preset.items(): st.session_state[key] = value, then
\* del st.session_state['_pending_preset']
_apply_pending_preset(s) ==
    IF "_pending_preset" \in DOMAIN s
    THEN LET preset_name == s["_pending_preset"]
             applied ==
                IF preset_name \in DOMAIN FILTER_PRESETS
                THEN LET preset == FILTER_PRESETS[preset_name]
                     IN [k \in DOMAIN s \cup DOMAIN preset |->
                            IF k \in DOMAIN preset THEN preset[k] ELSE s[k]]
                ELSE s
         IN SessionDel(applied, "_pending_preset")
    ELSE s

\* mutant: the payout ceiling reset to 100
clear_filters_dpr_100(s) ==
    [k \in DOMAIN s \cup {"filter_signals", "filter_sectors", "filter_discount_min",
                          "filter_yield_min", "filter_roe_min", "filter_dpr_max"} |->
        CASE k = "filter_signals" -> {}
          [] k = "filter_sectors" -> {}
          [] k = "filter_discount_min" -> Num(0)
          [] k = "filter_yield_min" -> Num(0)
          [] k = "filter_roe_min" -> Num(0)
          [] k = "filter_dpr_max" -> Num(100)
          [] OTHER -> s[k]]

clear_filters(s) ==
    [k \in DOMAIN s \cup {"filter_signals", "filter_sectors", "filter_discount_min",
                          "filter_yield_min", "filter_roe_min", "filter_dpr_max"} |->
        CASE k = "filter_signals" -> {}
          [] k = "filter_sectors" -> {}
          [] k = "filter_discount_min" -> Num(0)
          [] k = "filter_yield_min" -> Num(0)
          [] k = "filter_roe_min" -> Num(0)
          [] k = "filter_dpr_max" -> Num(1000)
          [] OTHER -> s[k]]

\* mutant: the widgets enter no default for an absent key
filter_widgets_no_default(s) == s

\* the six keyed filter widgets: a widget whose key is in the session state
\* shows that value, and one whose key is absent enters its default there
\* (empty selections, the first option 0, and the option 1000 of MAX DPR)
filter_widgets(s) ==
    [k \in DOMAIN s \cup {"filter_signals", "filter_sectors", "filter_discount_min",
                          "filter_yield_min", "filter_roe_min", "filter_dpr_max"} |->
        IF k \in DOMAIN s THEN s[k]
        ELSE CASE k = "filter_signals" -> {}
               [] k = "filter_sectors" -> {}
               [] k = "filter_discount_min" -> Num(0)
               [] k = "filter_yield_min" -> Num(0)
               [] k = "filter_roe_min" -> Num(0)
               [] k = "filter_dpr_max" -> Num(1000)]

\* the dict `filters` that main builds from the session state
filters_dict(s) ==
    [signals |-> Get(s, "filter_signals", {}),
     sectors |-> Get(s, "filter_sectors", {}),
     discount_min |-> Get(s, "filter_discount_min", Num(0)),
     yield_min |-> Get(s, "filter_yield_min", Num(0)),
     roe_min |-> Get(s, "filter_roe_min", Num(0)),
     dpr_max |-> Get(s, "filter_dpr_max", Num(100))]

RECURSIVE sort_from(_, _)
\* the rows of d whose ticker is TickerOf(i) or later, in ticker order
sort_from(d, i) ==
    IF i > 4 THEN <<>>
    ELSE SelectSeq(d, LAMBDA row : row.Ticker = TickerOf(i)) \o sort_from(d, i + 1)

\* df_filtered.sort_values('Ticker', ascending=True).reset_index(drop=True);
\* the empty ticker sorts first
sort_values(d) == SelectSeq(d, LAMBDA row : row.Ticker = "") \o sort_from(d, 1)

----------------------------------------------------------------------------
(* Instrument store: the rows of table "saham", and the loader             *)

MANUAL_COLUMNS ==
    {"Ticker", "BVPS", "EPS", "ROE", "DivTTM", "DPR", "Interim", "Final", "LastUpdated"}

\* a missing Sector (NaN), kept as a string that is no sector name, so that
\* isin is false on it
SectorNaN == "nan"

\* pd.to_datetime(col, errors='coerce'): a Timestamp, NaT for a null
to_datetime(x) == IF isna(x) THEN NaN ELSE <<"Timestamp", x[Len(x)]>>

\* the JSON form of a LastUpdated cell: the text of the instant
to_json(x) == IF isna(x) THEN NaN ELSE <<x[Len(x)]>>

load_saham(st) ==
    [i \in DOMAIN st |->
        [Ticker |-> st[i].ticker,
         DivTTM |-> to_numeric(st[i].div_ttm), DPR |-> to_numeric(st[i].dpr),
         ROE |-> to_numeric(st[i].roe), BVPS |-> to_numeric(st[i].bvps),
         EPS |-> to_numeric(st[i].eps),
         ManualFairValue |-> to_numeric(st[i].manual_fair_value),
         Interim |-> st[i].interim, Final |-> st[i].final,
         LastUpdated |-> to_datetime(st[i].last_updated)]]

\* the columns of ALL_COLUMNS that the store does not hold and the pass reads:
\* CurrentPrice (numeric, NaN) and Sector (""); the derived columns it adds
\* are overwritten by process_dataframe
ensure_columns(d) ==
    [i \in DOMAIN d |-> [CurrentPrice |-> NaN, Sector |-> ""] @@ d[i]]

\* an empty table gives make_empty_df()
load_csv(st) == IF st = <<>> THEN <<>> ELSE ensure_columns(load_saham(st))

rename_map ==
    [Ticker |-> "ticker", DivTTM |-> "div_ttm", DPR |-> "dpr", ROE |-> "roe",
     BVPS |-> "bvps", EPS |-> "eps", ManualFairValue |-> "manual_fair_value",
     Interim |-> "interim", Final |-> "final", LastUpdated |-> "last_updated"]

\* one record of df_prep.to_dict(orient='records') after the NaN and None
\* values are removed; the text columns of the model are never NaN
clean_record(row) ==
    LET cols == {c \in DOMAIN rename_map \cap DOMAIN row :
                    c \in {"Ticker", "Interim", "Final"} \/ notna(row[c])}
    IN [k \in {rename_map[c] : c \in cols} |->
           LET col == CHOOSE c \in cols : rename_map[c] = k
           IN IF col = "LastUpdated" THEN to_json(row[col]) ELSE row[col]]

\* table("saham").upsert(record): the row of that ticker takes the columns
\* of the record and keeps its other columns; a new row has them null
upsert(st, record) ==
    IF \E j \in DOMAIN st : st[j].ticker = record.ticker
    THEN [j \in DOMAIN st |->
            IF st[j].ticker = record.ticker
            THEN [c \in DOMAIN st[j] |->
                    IF c \in DOMAIN record THEN record[c] ELSE st[j][c]]
            ELSE st[j]]
    ELSE Append(st, [c \in {rename_map[k] : k \in DOMAIN rename_map} |->
                        IF c \in DOMAIN record THEN record[c] ELSE NaN])

RECURSIVE save_records(_, _, _, _)
\* the loop of save_saham from record i on; failing: the positions whose
\* upsert raises, which is logged and the loop goes on
save_records(st, d, i, failing) ==
    IF i > Len(d) THEN st
    ELSE LET record == clean_record(d[i])
         IN IF "ticker" \notin DOMAIN record \/ record.ticker = ""
            THEN save_records(st, d, i + 1, failing)
            ELSE IF i \in failing
            THEN save_records(st, d, i + 1, failing)
            ELSE save_records(upsert(st, record), d, i + 1, failing)

\* returns True whatever the upserts did
save_saham(st, d, failing) ==
    [store |-> save_records(st, d, 1, failing),
     result |-> TRUE,
     upsert_errors |-> {d[i].Ticker : i \in {j \in DOMAIN d \cap failing : d[j].Ticker # ""}}]

\* client_raises: get_supabase_client or save_saham raises before any upsert
save_csv(st, d, client_raises, failing) ==
    IF client_raises THEN [store |-> st, result |-> FALSE, upsert_errors |-> {}]
    ELSE LET save_df == [i \in DOMAIN d |->
                            [c \in MANUAL_COLUMNS \cap DOMAIN d[i] |-> d[i][c]]]
         IN save_saham(st, save_df, failing)

----------------------------------------------------------------------------
(* Market data and the script run                                          *)

\* the seconds after which the recorded fetch is stale
STALE_SECONDS == 600

\* Python's "a or b" on two prices: a unless it is None or 0
Or(a, b) == IF isna(a) \/ SameValue(a, Num(0)) THEN b ELSE a

\* the result for one ticker (yfinance is installed).  The inner handlers
\* catch KeyError and AttributeError of fast_info, KeyError, TypeError and
\* HTTPError of info, and every exception of history, and the lookup goes
\* on; any other exception reaches the outer handlers, which name it in
\* "Error".  A price that stays None is undefined in the frame, as NaN
fetch_single_ticker_data(ticker, answer) ==
    LET fast == answer.fast_info
        info == answer.info
        hist == answer.history
        fast_escapes == fast[1] = "raise" /\ fast[2] \notin {"KeyError", "AttributeError"}
        info_escapes == info[1] = "raise"
                           /\ info[2] \notin {"KeyError", "TypeError", "HTTPError"}
        price1 == IF fast[1] = "value" THEN fast[2] ELSE NaN
        price2 == IF isna(price1) \/ SameValue(price1, Num(0))
                  THEN IF info[1] = "value"
                       THEN Or(info[2].currentPrice, info[2].regularMarketPrice)
                       ELSE price1
                  ELSE price1
        price3 == IF isna(price2) \/ SameValue(price2, Num(0))
                  THEN IF hist[1] = "value" /\ notna(hist[2]) THEN hist[2] ELSE price2
                  ELSE price2
        sector == IF info[1] = "value" THEN info[2].sector ELSE "Unknown"
        price == IF notna(price3) /\ LE(price3, Num(0)) THEN NaN ELSE price3
        raised == IF fast_escapes THEN fast[2] ELSE info[2]
    IN IF fast_escapes \/ info_escapes
       THEN [Ticker |-> ticker, CurrentPrice |-> NaN, Sector |-> "Unknown",
             Error |-> CASE raised = "ConnectionError" -> "Network error"
                         [] raised = "Timeout" -> "Timeout"
                         [] OTHER -> raised]
       ELSE [Ticker |-> ticker, CurrentPrice |-> price, Sector |-> sector,
             Error |-> NoError]

\* one result per ticker of the list, in its order
fetch_all_tickers(tickers, mkt) ==
    <<>> \o [i \in DOMAIN tickers |-> fetch_single_ticker_data(tickers[i], mkt[tickers[i]])]

RECURSIVE unique_from(_, _)
\* df["Ticker"].unique() from row i on: the tickers in order of first
\* appearance
unique_from(d, i) ==
    IF i > Len(d) THEN <<>>
    ELSE (IF \E j \in 1..(i - 1) : d[j].Ticker = d[i].Ticker THEN <<>>
          ELSE <<d[i].Ticker>>) \o unique_from(d, i + 1)

\* main down to the fetch: the pending preset and the load of a new session
main_load(s, st) ==
    LET s1 == _apply_pending_preset(s)
    IN IF "df" \notin DOMAIN s1 THEN SessionSet(s1, "df", load_csv(st)) ELSE s1

\* mutant: every run fetches
should_fetch_always(s2, now) ==
    unique_from(s2["df"], 1) # <<>>

\* mutant: a collection with an unpriced instrument is fetched as well
should_fetch_unpriced(s2, now) ==
    /\ unique_from(s2["df"], 1) # <<>>
    /\ \/ "last_yf_fetch" \notin DOMAIN s2
       \/ now - s2["last_yf_fetch"] > STALE_SECONDS
       \/ \E i \in DOMAIN s2["df"] : isna(s2["df"][i].CurrentPrice)

\* the collection holds a ticker, and no fetch is recorded or the recorded
\* one is more than 600 s old
should_fetch(s2, now) ==
    /\ unique_from(s2["df"], 1) # <<>>
    /\ \/ "last_yf_fetch" \notin DOMAIN s2
       \/ now - s2["last_yf_fetch"] > STALE_SECONDS

\* the fetch and the merge of its prices and sectors into the collection
merge_fetched(s2, now, results) ==
    LET df_ref == s2["df"]
        result_of(t) == results[CHOOSE i \in DOMAIN results : results[i].Ticker = t]
        merged == <<>> \o [i \in DOMAIN df_ref |->
                     [df_ref[i] EXCEPT !.CurrentPrice = result_of(df_ref[i].Ticker).CurrentPrice,
                                       !.Sector = result_of(df_ref[i].Ticker).Sector]]
    IN SessionSet(SessionSet(s2, "df", merged), "last_yf_fetch", now)

\* mutant: every run loads the collection from the store
main_fetch_reload(s, st, now, mkt) ==
    LET s2 == SessionSet(_apply_pending_preset(s), "df", load_csv(st))
    IN IF should_fetch(s2, now)
       THEN merge_fetched(s2, now, fetch_all_tickers(unique_from(s2["df"], 1), mkt))
       ELSE s2

\* main down to process_dataframe: the pending preset, the load of a new
\* session, and the price fetch when none is recorded or the recorded one
\* is stale
main_fetch(s, st, now, mkt) ==
    LET s2 == main_load(s, st)
    IN IF should_fetch(s2, now)
       THEN merge_fetched(s2, now, fetch_all_tickers(unique_from(s2["df"], 1), mkt))
       ELSE s2

\* the batch of lookups of that run, or the last one made where it makes none
main_batch(s, st, now, mkt, last) ==
    LET s2 == main_load(s, st)
    IN IF should_fetch(s2, now)
       THEN [at |-> now, tickers |-> unique_from(s2["df"], 1),
             results |-> fetch_all_tickers(unique_from(s2["df"], 1), mkt)]
       ELSE last

\* a script run that no button interrupts, from the session state s0 it
\* starts with: the widgets, the filter evaluation and the sort of the table.
\* query_raises: see apply_filters
Render(s0) ==
    \E s \in {filter_widgets(main_fetch(s0, store, clock, market))} :
       \E processed \in {process_dataframe(s["df"])} :
          \E filtered \in {apply_filters(processed, filters_dict(s), query_raises) :
                               query_raises \in BOOLEAN} :
             /\ session' = s
             /\ fetched' = main_batch(s0, store, clock, market, fetched)
             /\ df_processed' = processed
             /\ filters' = filters_dict(s)
             /\ df_filtered' = sort_values(filtered)
             /\ stage' = "rendered"

\* the run that st.rerun() asked for, or the first run of a session
MainPass ==
    /\ stage = "rerun"
    /\ Render(session)
    /\ UNCHANGED <<clock, market, cls, val, df, store, event, report>>

----------------------------------------------------------------------------
(* Filter widgets, CLEAR and the preset buttons                            *)

MaxStoreRows == 2

\* Graham fair value 180; the market prices AAAA at 144, a discount of 20%
\* and yields of 11.1% and 5.6%, and has no price for BBBB.  At that price the
\* first three cells are a STRONG BUY, a BUY and an ACCUMULATE
StoreCells ==
    {[bvps |-> Num(40), eps |-> Num(36), roe |-> r[1], div_ttm |-> r[2], dpr |-> r[3],
      manual_fair_value |-> NaN, interim |-> "", final |-> "March",
      last_updated |-> <<"2024-01-01 00:00:00">>] :
        r \in {<<Num(16), Num(16), Num(70)>>, <<Num(12), Num(16), Num(70)>>,
                <<Num(6), Num(16), Num(120)>>, <<NaN, Num(8), NaN>>}}

\* the values the user picks in each filter widget
FilterChoices ==
    [filter_signals |-> {{}, {"STRONG BUY", "BUY"}, {"STRONG BUY", "BUY", "ACCUMULATE"}},
     filter_sectors |-> {{}, {"Financials"}},
     filter_discount_min |-> {Num(0), Num(20)},
     filter_yield_min |-> {Num(0), Num(5), Num(8)},
     filter_roe_min |-> {Num(0), Num(10), Num(15)},
     filter_dpr_max |-> {Num(1000), Num(70)}]

InitPreset ==
    /\ \E n \in 0..MaxStoreRows :
          \E rows \in [1..n -> StoreCells] :
             store = [i \in 1..n |-> [ticker |-> TickerOf(i)] @@ rows[i]]
    /\ session = NoSession
    /\ event = ""
    /\ report = NoReport
    /\ clock = 0
    /\ market = Market
    /\ fetched = NoBatch
    /\ stage = "rerun"
    /\ cls = ClsIdle
    /\ val = ValIdle
    /\ df = <<>>
    /\ df_processed = <<>>
    /\ filters = NoFilters
    /\ df_filtered = <<>>

\* the user changes one filter widget: its key takes the value and the
\* script runs; a sector can be picked only among those of the table
SelectFilter ==
    /\ stage = "rendered"
    /\ \E key \in DOMAIN FilterChoices :
          \E value \in FilterChoices[key] :
             /\ key = "filter_sectors" =>
                   value \subseteq {df_processed[i].Sector : i \in DOMAIN df_processed}
             /\ Render(SessionSet(session, key, value))
    /\ event' = "filter"
    /\ UNCHANGED <<clock, market, cls, val, df, store, report>>

\* CLEAR: the run stops at clear_filters(); st.rerun(), before the widgets
\* and the filter evaluation
ClickClear ==
    /\ stage = "rendered"
    /\ LET s == clear_filters(main_fetch(session, store, clock, market))
       IN /\ session' = s
          /\ df_processed' = process_dataframe(s["df"])
    /\ fetched' = main_batch(session, store, clock, market, fetched)
    /\ stage' = "rerun"
    /\ event' = "btn_clear"
    /\ UNCHANGED <<clock, market, cls, val, df, filters, df_filtered, store, report>>

\* a run that stops at apply_preset(preset_name); st.rerun(), after the
\* widgets and before the filter evaluation, for a name among `names`
ApplyPresetAmong(names) ==
    /\ stage = "rendered"
    /\ \E preset_name \in names :
          LET s == apply_preset(filter_widgets(main_fetch(session, store, clock, market)),
                                preset_name)
          IN /\ session' = s
             /\ df_processed' = process_dataframe(s["df"])
             /\ event' = preset_name
    /\ fetched' = main_batch(session, store, clock, market, fetched)
    /\ stage' = "rerun"
    /\ UNCHANGED <<clock, market, cls, val, df, filters, df_filtered, store, report>>

\* APPLY <preset>: one button per name of FILTER_PRESETS
ClickPreset == ApplyPresetAmong(DOMAIN FILTER_PRESETS)

NextPreset == MainPass \/ SelectFilter \/ ClickClear \/ ClickPreset

SpecPreset == InitPreset /\ [][NextPreset]_vars

\* the names apply_preset is called with: those of FILTER_PRESETS and one
\* that FILTER_PRESETS does not have
PresetNameInputs == DOMAIN FILTER_PRESETS \cup {"Dividend King"}

\* apply_preset(preset_name); st.rerun() for any of these names
ApplyPresetCall == ApplyPresetAmong(PresetNameInputs)

NextPresetCall == MainPass \/ SelectFilter \/ ClickClear \/ ApplyPresetCall

SpecPresetCall == InitPreset /\ [][NextPresetCall]_vars

----------------------------------------------------------------------------
(* The manage dialog: Add New, Edit Data, Delete Data                      *)

\* the most rows an accepted Add New may leave in the collection; the store
\* a session starts from may hold more
MaxStocks == 1

\* datetime.today().strftime('%Y-%m-%d %H:%M:%S') at the submit
Now == <<"2024-06-01 12:00:00">>

\* what the user types in the Ticker field, after strip() and upper()
TickerInputs == {"", "AAAA", "BBBB"}

\* what the user enters in the other fields of the form
FormInputs ==
    {[DivTTM |-> Num(16), DPR |-> Num(70), ROE |-> Num(16), BVPS |-> Num(40),
      EPS |-> Num(36), ManualFairValue |-> Num(100), Interim |-> "June",
      Final |-> ""]}

\* the store a session starts from
CrudStores ==
    {SubSeq(<<[ticker |-> "AAAA", div_ttm |-> Num(8), dpr |-> Num(70), roe |-> Num(12),
               bvps |-> Num(40), eps |-> Num(36), manual_fair_value |-> NaN,
               interim |-> "", final |-> "March",
               last_updated |-> <<"2024-01-01 00:00:00">>],
              [ticker |-> "BBBB", div_ttm |-> Num(8), dpr |-> Num(70), roe |-> Num(12),
               bvps |-> Num(40), eps |-> Num(36), manual_fair_value |-> NaN,
               interim |-> "", final |-> "March",
               last_updated |-> <<"2024-01-01 00:00:00">>]>>, 1, n) : n \in 0..2}

\* the tickers of the selectbox of Edit Data and Delete Data, without the ""
\* it starts with
ticker_options(d) == {d[i].Ticker : i \in DOMAIN d} \ {""}

\* match.index[0]: the first row of that ticker; 0 stands for None
index_to_edit(d, ticker_to_edit) ==
    IF ticker_to_edit # "" /\ \E i \in DOMAIN d : d[i].Ticker = ticker_to_edit
    THEN CHOOSE i \in DOMAIN d :
            /\ d[i].Ticker = ticker_to_edit
            /\ \A j \in 1..(i - 1) : d[j].Ticker # ticker_to_edit
    ELSE 0

\* df.drop(index=index).reset_index(drop=True)
drop(d, index) ==
    <<>> \o [i \in 1..(Len(d) - 1) |-> IF i < index THEN d[i] ELSE d[i + 1]]

\* pd.concat([df, pd.DataFrame([new_data])], ignore_index=True): the columns
\* new_data does not have are NaN in the new row
concat(d, new_data) ==
    Append(d, [CurrentPrice |-> NaN, Sector |-> SectorNaN] @@ new_data)

\* for k in MANUAL_COLUMNS: df.at[index, k] = new_data.get(k, "")
set_manual_columns(d, index, new_data) ==
    [d EXCEPT ![index] = [k \in DOMAIN d[index] |->
                            IF k \in MANUAL_COLUMNS THEN new_data[k] ELSE d[index][k]]]

\* the end of both handlers: save_csv(st.session_state.df[MANUAL_COLUMNS])
\* with its result ignored, the toast, st.rerun().  d2 is the collection the
\* handler leaves in the session; the save either raises before any upsert
\* or runs with the upsert of at most one record raising
save_and_rerun(action, selected, ticker, manual, d2, errors, toast) ==
    \E saved \in {save_csv(store, d2, client_raises, failing) :
                     client_raises \in BOOLEAN,
                     failing \in {{}} \cup {{i} : i \in DOMAIN d2}} :
       /\ session' = SessionSet(session, "df", d2)
       /\ store' = saved.store
       /\ report' = [action |-> action, selected |-> selected, ticker |-> ticker,
                     manual_fair_value |-> manual,
                     errors |-> errors \cup (IF saved.result THEN {}
                                              ELSE {"Failed to save data"}),
                     toast |-> toast, save_calls |-> <<saved.result>>,
                     upsert_errors |-> saved.upsert_errors]
       /\ stage' = "rerun"
       /\ event' = action
       /\ UNCHANGED <<clock, market, fetched, cls, val, df, df_processed, filters, df_filtered>>

\* SAVE ADD NEW, where an accepted row leaves at most max_rows rows
AddNewWithin(max_rows) ==
    /\ stage = "rendered"
    /\ \E ticker \in TickerInputs, form \in FormInputs :
          LET d == session["df"]
              new_data == [Ticker |-> ticker, LastUpdated |-> Now] @@ form
              errors == IF ticker = "" THEN {"TICKER REQUIRED"}
                        ELSE IF \E i \in DOMAIN d : d[i].Ticker = ticker
                        THEN {"ALREADY EXISTS"}
                        ELSE {}
              d2 == IF errors = {} THEN concat(d, new_data) ELSE d
          IN /\ errors = {} => Len(d2) <= max_rows
             /\ save_and_rerun("Add New", "", ticker, form.ManualFairValue, d2, errors,
                               "SAVED SUCCESSFULLY")

AddNew == AddNewWithin(MaxStocks)

\* SAVE EDIT DATA, with a stock selected or with none; forms: what the
\* user may enter in the fields other than Ticker
EditDataWith(forms) ==
    /\ stage = "rendered"
    /\ \E ticker_to_edit \in {""} \cup ticker_options(session["df"]),
          ticker \in TickerInputs, form \in forms :
          LET d == session["df"]
              new_data == [Ticker |-> ticker, LastUpdated |-> Now] @@ form
              index == index_to_edit(d, ticker_to_edit)
              d2 == IF index # 0 THEN set_manual_columns(d, index, new_data) ELSE d
          IN save_and_rerun("Edit Data", ticker_to_edit, ticker, form.ManualFairValue,
                            d2, {}, "SAVED SUCCESSFULLY")

EditData == EditDataWith(FormInputs)

\* CONFIRM DELETE, which is disabled while no stock is selected
DeleteData ==
    /\ stage = "rendered"
    /\ \E ticker_to_edit \in ticker_options(session["df"]) :
          LET d == session["df"]
              d2 == drop(d, index_to_edit(d, ticker_to_edit))
          IN save_and_rerun("Delete Data", ticker_to_edit, "", NaN, d2, {}, "DELETED")

\* the browser session ends and a new one starts: its first run finds no df
\* in the session state and loads the collection from the store
NewSession ==
    /\ stage = "rendered"
    /\ session' = NoSession
    /\ report' = NoReport
    /\ stage' = "rerun"
    /\ event' = "session"
    /\ UNCHANGED <<clock, market, fetched, cls, val, df, df_processed, filters, df_filtered, store>>

InitCrud ==
    /\ store \in CrudStores
    /\ session = NoSession
    /\ event = ""
    /\ report = NoReport
    /\ clock = 0
    /\ market = Market
    /\ fetched = NoBatch
    /\ stage = "rerun"
    /\ cls = ClsIdle
    /\ val = ValIdle
    /\ df = <<>>
    /\ df_processed = <<>>
    /\ filters = NoFilters
    /\ df_filtered = <<>>

NextCrud == MainPass \/ AddNew \/ EditData \/ DeleteData \/ NewSession

SpecCrud == InitCrud /\ [][NextCrud]_vars

----------------------------------------------------------------------------
(* The staleness of the market data: time, MANAGE, REFRESH, Add New        *)

\* the last instant of a session, in seconds
MaxClock == 1202

\* the most rows an accepted Add New may leave in the collection here
MaxFreshStocks == 2

\* the seconds that pass between two interactions
WaitChoices == {300, 301}

\* time passes while the page is shown
Wait ==
    /\ stage = "rendered"
    /\ \E seconds \in WaitChoices :
          /\ clock + seconds <= MaxClock
          /\ clock' = clock + seconds
    /\ UNCHANGED <<cls, val, df, df_processed, filters, df_filtered, stage,
                   session, store, event, report, market, fetched>>

\* MANAGE: the script runs to its end and the dialog opens
ClickManage ==
    /\ stage = "rendered"
    /\ Render(session)
    /\ event' = "btn_manage"
    /\ UNCHANGED <<cls, val, df, store, report, clock, market>>

\* REFRESH: the run stops at the button, before the widgets: the recorded
\* fetch is removed, force_recompute is set, st.rerun()
ClickRefresh ==
    /\ stage = "rendered"
    /\ LET s == main_fetch(session, store, clock, market)
       IN /\ session' = SessionSet(SessionDel(s, "last_yf_fetch"), "force_recompute", TRUE)
          /\ df_processed' = process_dataframe(s["df"])
    /\ fetched' = main_batch(session, store, clock, market, fetched)
    /\ stage' = "rerun"
    /\ event' = "btn_refresh"
    /\ UNCHANGED <<cls, val, df, filters, df_filtered, store, report, clock, market>>

AddNewFresh == AddNewWithin(MaxFreshStocks)

InitMarket ==
    /\ store \in CrudStores
    /\ session = NoSession
    /\ event = ""
    /\ report = NoReport
    /\ clock = 0
    /\ market = Market
    /\ fetched = NoBatch
    /\ stage = "rerun"
    /\ cls = ClsIdle
    /\ val = ValIdle
    /\ df = <<>>
    /\ df_processed = <<>>
    /\ filters = NoFilters
    /\ df_filtered = <<>>

NextMarket == MainPass \/ Wait \/ ClickManage \/ ClickRefresh \/ AddNewFresh

SpecMarket == InitMarket /\ [][NextMarket]_vars

----------------------------------------------------------------------------
(* The manual fair value in Edit Data                                      *)

\* the form with MANUAL FAIR VALUE left at 0 and set to 100
ManualForms ==
    {[form EXCEPT !.ManualFairValue = manual] :
        form \in FormInputs, manual \in {Num(0), Num(100)}}

\* a store with one instrument, without and with a manual fair value
ManualStores ==
    {<<[ticker |-> "AAAA", div_ttm |-> Num(8), dpr |-> Num(70), roe |-> Num(12),
        bvps |-> Num(40), eps |-> Num(36), manual_fair_value |-> manual,
        interim |-> "", final |-> "March",
        last_updated |-> <<"2024-01-01 00:00:00">>]>> : manual \in {NaN, Num(150)}}

EditManual == EditDataWith(ManualForms)

InitManual ==
    /\ store \in ManualStores
    /\ session = NoSession
    /\ event = ""
    /\ report = NoReport
    /\ clock = 0
    /\ market = Market
    /\ fetched = NoBatch
    /\ stage = "rerun"
    /\ cls = ClsIdle
    /\ val = ValIdle
    /\ df = <<>>
    /\ df_processed = <<>>
    /\ filters = NoFilters
    /\ df_filtered = <<>>

NextManual == MainPass \/ EditManual

SpecManual == InitManual /\ [][NextManual]_vars

----------------------------------------------------------------------------
(* fetch_all_tickers on a list of tickers                                  *)

\* the most tickers of a list
MaxTickers == 2

\* the answers of the provider for one ticker: a quote; a quote that only
\* info holds; no connection; a timeout; HTTP errors on info and history
\* with no fast_info key; a price with an HTTP error on info; a price that
\* only history holds; a negative price
ProviderAnswers ==
    {Quote(Num(144), "Financials"),
     [Quote(Num(160), "Energy") EXCEPT !.fast_info = Value(NaN)],
     Unreachable,
     [fast_info |-> Raises("Timeout"), info |-> Raises("Timeout"),
      history |-> Raises("Timeout")],
     [fast_info |-> Raises("KeyError"), info |-> Raises("HTTPError"),
      history |-> Raises("HTTPError")],
     [Quote(Num(144), "Financials") EXCEPT !.info = Raises("HTTPError")],
     [fast_info |-> Value(Num(0)),
      info |-> Value([currentPrice |-> NaN, regularMarketPrice |-> Num(0),
                      sector |-> "Energy"]),
      history |-> Value(Num(150))],
     Quote(<<-5, 1>>, "Energy")}

\* the lists of distinct tickers
TickerLists ==
    {l \in UNION {[1..n -> {TickerOf(i) : i \in 1..MaxTickers}] : n \in 0..MaxTickers} :
        \A i, j \in DOMAIN l : i # j => l[i] # l[j]}

InitFetch ==
    /\ stage = "loaded"
    /\ session = NoSession
    /\ store = <<>>
    /\ event = ""
    /\ report = NoReport
    /\ clock = 0
    /\ market \in [{TickerOf(i) : i \in 1..MaxTickers} -> ProviderAnswers]
    /\ \E tickers \in TickerLists : fetched = [NoBatch EXCEPT !.tickers = tickers]
    /\ cls = ClsIdle
    /\ val = ValIdle
    /\ df = <<>>
    /\ df_processed = <<>>
    /\ filters = NoFilters
    /\ df_filtered = <<>>

FetchAllTickers ==
    /\ fetched.at = -1
    /\ fetched' = [fetched EXCEPT !.at = clock,
                                  !.results = fetch_all_tickers(fetched.tickers, market)]
    /\ UNCHANGED <<cls, val, df, df_processed, filters, df_filtered, stage,
                   session, store, event, report, clock, market>>

NextFetch == FetchAllTickers

SpecFetch == InitFetch /\ [][NextFetch]_vars

----------------------------------------------------------------------------
(* Properties                                                              *)

\* the first-match procedure, with the thresholds written out
FirstMatch(discount, div_yield, roe) ==
    IF isna(discount) \/ isna(div_yield) \/ isna(roe) THEN "WAIT"
    ELSE IF LT(div_yield, Pct(8)) THEN "WAIT"
    ELSE IF LT(discount, Num(0)) THEN "WAIT FOR DIP"
    ELSE IF LT(roe, Num(8))
         THEN IF GE(div_yield, Pct(10)) /\ GE(discount, Pct(20)) THEN "ACCUMULATE"
              ELSE "WAIT"
    ELSE IF GE(discount, Pct(20)) /\ GE(roe, Num(15)) THEN "STRONG BUY"
    ELSE IF GE(discount, Pct(15)) /\ GE(roe, Num(10)) THEN "BUY"
    ELSE IF GE(discount, Pct(5)) THEN "ACCUMULATE"
    ELSE "WAIT"

BatchDone == cls.batch # <<>>

ScalarDone == cls.scalar # ""

\* C1: for every triple (discount, div_yield, roe), members possibly
\* undefined, the label given by assign_signals_vectorized is one of the five
\* labels and is the result of the first-match procedure.
C1_BatchIsFirstMatch ==
    BatchDone =>
        /\ Len(cls.batch) = 1
        /\ cls.batch[1] \in SIGNAL_OPTIONS
        /\ cls.batch[1] = FirstMatch(cls.discount, cls.div_yield, cls.roe)

\* the low-ROE exception decided by the batch form
C1_Witness ==
    /\ BatchDone
    /\ LT(cls.roe, Num(8))
    /\ cls.batch[1] = "ACCUMULATE"

\* C2: the batch classifier and the row-wise classifier give the same label
\* for every triple, defined or not.
C2_BatchEqualsScalar ==
    (BatchDone /\ ScalarDone) => cls.batch[1] = cls.scalar

\* roe >= 8 with div_yield >= 0.10 and discount >= 0.20, below the BUY
\* threshold on ROE: the "exceptional" mask of the batch form holds
C2_Witness ==
    /\ BatchDone
    /\ ScalarDone
    /\ GE(cls.roe, Num(8))
    /\ LT(cls.roe, Num(10))
    /\ GE(cls.div_yield, Pct(10))
    /\ GE(cls.discount, Pct(20))
    /\ cls.scalar = "ACCUMULATE"

\* C4: for defined inputs with discount < 0, the label is WAIT when
\* div_yield < 0.08 and WAIT FOR DIP when div_yield >= 0.08, whatever roe,
\* in both forms.
C4_YieldFloorBeforeOvervalued ==
    LET expected == IF LT(cls.div_yield, Pct(8)) THEN "WAIT" ELSE "WAIT FOR DIP"
        overvalued == /\ notna(cls.div_yield)
                      /\ notna(cls.roe)
                      /\ LT(cls.discount, Num(0))
    IN /\ (BatchDone /\ overvalued) => cls.batch[1] = expected
       /\ (ScalarDone /\ overvalued) => cls.scalar = expected

\* discount = -0.05, div_yield = 0.03, roe = 12 classified WAIT by both forms
C4_Witness ==
    /\ cls.discount = Pct(-5)
    /\ cls.div_yield = Pct(3)
    /\ cls.roe = Num(12)
    /\ cls.batch = <<"WAIT">>
    /\ cls.scalar = "WAIT"

IsC6Input ==
    /\ cls.discount = Pct(3)
    /\ cls.div_yield = Pct(12)
    /\ cls.roe = Num(6)

\* C6, as stated: discount = 0.03, div_yield = 0.12, roe = 6 is classified
\* ACCUMULATE.
C6_Original ==
    /\ (IsC6Input /\ BatchDone) => cls.batch[1] = "ACCUMULATE"
    /\ (IsC6Input /\ ScalarDone) => cls.scalar = "ACCUMULATE"

\* C6, amended: discount = 0.03, div_yield = 0.12, roe = 6 is classified
\* WAIT by both forms (the low-ROE exception needs discount >= 0.20); with
\* discount = 0.22 in place of 0.03 the label is ACCUMULATE.
C6_Amended ==
    /\ (IsC6Input /\ BatchDone) => cls.batch[1] = "WAIT"
    /\ (IsC6Input /\ ScalarDone) => cls.scalar = "WAIT"
    /\ (cls.discount = Pct(22) /\ cls.div_yield = Pct(12) /\ cls.roe = Num(6)) =>
          /\ BatchDone => cls.batch[1] = "ACCUMULATE"
          /\ ScalarDone => cls.scalar = "ACCUMULATE"

C6_Witness == IsC6Input /\ BatchDone /\ ScalarDone

Positive(cell) == IsNumber(cell) /\ cell[1] > 0

\* C8: with no override, the Graham estimate is undefined (NaN, not zero)
\* when BVPS <= 0 or EPS <= 0 or either is missing, and is defined, and
\* positive, exactly when BVPS > 0 and EPS > 0, in the batch and the row form.
C8_GrahamDefinedIffPositive ==
    LET defined == Positive(val.BVPS) /\ Positive(val.EPS)
    IN /\ val.batch # <<>> =>
            /\ notna(val.batch[1]) <=> defined
            /\ notna(val.batch[1]) => GT(val.batch[1], Num(0))
       /\ val.scalar # <<>> =>
            /\ notna(val.scalar[1]) <=> defined
            /\ notna(val.scalar[1]) => GT(val.scalar[1], Num(0))

\* BVPS = 0 with a positive EPS: undefined in both forms
C8_Witness ==
    /\ val.BVPS = Num(0)
    /\ val.EPS = Num(36)
    /\ val.batch = <<NaN>>
    /\ val.scalar = <<NaN>>

Processed == stage = "processed"

\* C3: in a processed collection an instrument with DivYield below 0.08 has
\* Signal WAIT.
C3_YieldFloorIsAbsolute ==
    \A i \in DOMAIN df_processed :
        LT(df_processed[i].DivYield, Pct(8)) => df_processed[i].Signal = "WAIT"

\* a yield of 5% with a discount of 20% and ROE 16
C3_Witness ==
    \E i \in DOMAIN df_processed :
        /\ LT(df_processed[i].DivYield, Pct(8))
        /\ GE(df_processed[i].Discount, Pct(20))
        /\ GE(df_processed[i].ROE, Num(15))
        /\ df_processed[i].Signal = "WAIT"

\* the instrument has undefined data: no positive fair value, no positive
\* price, or a missing or malformed ROE or DivTTM
UndefinedData(raw, out) ==
    \/ ~GT(out.FairValue, Num(0))
    \/ ~Positive(raw.CurrentPrice)
    \/ ~IsNumber(raw.ROE)
    \/ ~IsNumber(raw.DivTTM)

\* C5: the processing pass completes on undefined data, giving one row per
\* instrument, and every instrument with undefined data has Signal WAIT.
C5_UndefinedIsWait ==
    Processed =>
        /\ Len(df_processed) = Len(df)
        /\ \A i \in DOMAIN df :
              /\ df_processed[i].Ticker = df[i].Ticker
              /\ df_processed[i].Signal \in SIGNAL_OPTIONS
              /\ UndefinedData(df[i], df_processed[i]) => df_processed[i].Signal = "WAIT"

\* a missing ROE on an overvalued instrument whose yield qualifies
C5_Witness ==
    /\ Processed
    /\ \E i \in DOMAIN df :
          /\ df[i].ROE = NaN
          /\ LT(df_processed[i].Discount, Num(0))
          /\ GE(df_processed[i].DivYield, Pct(8))
          /\ df_processed[i].Signal = "WAIT"

\* C7: after a pass, FairValue is ManualFairValue and UsesManualFV is true
\* when ManualFairValue is present and > 0; otherwise FairValue is
\* GrahamFairValue and UsesManualFV is false.
C7_ManualOverride ==
    Processed =>
        \A i \in DOMAIN df :
            LET manual == Get(df[i], "ManualFairValue", NaN)
                out == df_processed[i]
            IN IF Positive(manual)
               THEN out.FairValue = manual /\ out.UsesManualFV = TRUE
               ELSE /\ out.FairValue = out.GrahamFairValue
                    /\ out.FairValue = compute_fair_value(df[i])
                    /\ out.UsesManualFV = FALSE

\* a manual value over a defined, different Graham value
C7_Witness ==
    /\ Processed
    /\ \E i \in DOMAIN df :
          /\ Positive(Get(df[i], "ManualFairValue", NaN))
          /\ notna(df_processed[i].GrahamFairValue)
          /\ ~SameValue(df_processed[i].GrahamFairValue, df_processed[i].FairValue)
          /\ df_processed[i].UsesManualFV

\* C9: after a pass, Discount is defined exactly when FairValue > 0 and
\* CurrentPrice > 0, and then Discount * FairValue = FairValue - CurrentPrice;
\* DivYield is defined only when CurrentPrice > 0, and then
\* DivYield * CurrentPrice = DivTTM.
C9_DerivedFieldsDefined ==
    Processed =>
        \A i \in DOMAIN df_processed :
            LET out == df_processed[i]
                priced == GT(out.CurrentPrice, Num(0))
                valued == GT(out.FairValue, Num(0))
            IN /\ notna(out.Discount) <=> (valued /\ priced)
               /\ notna(out.Discount) =>
                     SameValue(Mul(out.Discount, out.FairValue),
                               Sub(out.FairValue, out.CurrentPrice))
               /\ notna(out.DivYield) => priced
               /\ priced => SameValue(Mul(out.DivYield, out.CurrentPrice), out.DivTTM)

\* a fair value with a price that is not positive
C9_Witness ==
    /\ Processed
    /\ \E i \in DOMAIN df_processed :
          /\ GT(df_processed[i].FairValue, Num(0))
          /\ df_processed[i].CurrentPrice = Num(0)
          /\ isna(df_processed[i].Discount)
          /\ isna(df_processed[i].DivYield)

\* the row satisfies every active clause of the filter state
SatisfiesActiveClauses(row, f) ==
    /\ f.signals # {} => row.Signal \in f.signals
    /\ f.sectors # {} => row.Sector \in f.sectors
    /\ GT(f.discount_min, Num(0)) => GE(Mul(row.Discount, Num(100)), f.discount_min)
    /\ GT(f.yield_min, Num(0)) => GE(Mul(row.DivYield, Num(100)), f.yield_min)
    /\ GT(f.roe_min, Num(0)) => GE(row.ROE, f.roe_min)
    /\ LT(f.dpr_max, Num(1000)) => LE(row.DPR, f.dpr_max)

\* C10: apply_filters returns exactly the rows that satisfy every active
\* clause, in their input order.
C10_ExactlyTheSatisfyingRows ==
    stage = "filtered" =>
        df_filtered = SelectSeq(df_processed,
                                LAMBDA row : SatisfiesActiveClauses(row, filters))

\* of two rows the second alone passes a discount and a DPR clause
C10_Witness ==
    /\ stage = "filtered"
    /\ GT(filters.discount_min, Num(0))
    /\ LT(filters.dpr_max, Num(1000))
    /\ Len(df_processed) = 2
    /\ Len(df_filtered) = 1
    /\ df_filtered[1] = df_processed[2]

\* C11: apply_filters is idempotent: filtering the filtered collection again
\* with the same filter state, through either evaluation path of the numeric
\* clauses, returns the filtered collection.
C11_ApplyFiltersIdempotent ==
    stage = "filtered" =>
        \A query_raises \in BOOLEAN :
            apply_filters(df_filtered, filters, query_raises) = df_filtered

\* a signal clause and a numeric clause dropped one of two rows and kept one
C11_Witness ==
    /\ stage = "filtered"
    /\ filters.signals # {}
    /\ filter_conditions(filters) # <<>>
    /\ Len(df_processed) = 2
    /\ Len(df_filtered) = 1

FilterKeys == {"filter_signals", "filter_sectors", "filter_discount_min",
               "filter_yield_min", "filter_roe_min", "filter_dpr_max"}

\* the filter state that the six keys of a session state hold
KeyedState(s) ==
    [signals |-> s["filter_signals"], sectors |-> s["filter_sectors"],
     discount_min |-> s["filter_discount_min"], yield_min |-> s["filter_yield_min"],
     roe_min |-> s["filter_roe_min"], dpr_max |-> s["filter_dpr_max"]]

\* the bundle of a preset as a filter state
BundleState(name) == KeyedState(FILTER_PRESETS[name])

\* C12: apply_preset replaces the whole filter state at once.  Between the
\* click and the run it asks for, the last filter evaluation is the one of
\* the complete previous state, which the six keys still hold; the first
\* evaluation after the click sees the preset's bundle in all six fields, and
\* the pending mark is gone.
C12_PresetReplacesAtomically ==
    event \in DOMAIN FILTER_PRESETS =>
        /\ stage = "rerun" =>
              /\ "_pending_preset" \in DOMAIN session
              /\ session["_pending_preset"] = event
              /\ filters = KeyedState(session)
        /\ stage = "rendered" =>
              /\ "_pending_preset" \notin DOMAIN session
              /\ filters = BundleState(event)
              /\ KeyedState(session) = BundleState(event)

\* Value Play is pending over a state that differs from it in all six fields
C12_Witness ==
    /\ event = "Value Play"
    /\ stage = "rerun"
    /\ "_pending_preset" \in DOMAIN session
    /\ \A k \in FilterKeys : session[k] # FILTER_PRESETS["Value Play"][k]
    /\ filters = KeyedState(session)

\* the preset table, with no sector clause and no payout ceiling
TableState(name) ==
    CASE name = "High Yield" ->
            [signals |-> {"STRONG BUY", "BUY", "ACCUMULATE"}, sectors |-> {},
             discount_min |-> Num(0), yield_min |-> Num(8), roe_min |-> Num(0),
             dpr_max |-> Num(1000)]
      [] name = "Value Play" ->
            [signals |-> {"STRONG BUY", "BUY"}, sectors |-> {},
             discount_min |-> Num(20), yield_min |-> Num(5), roe_min |-> Num(10),
             dpr_max |-> Num(1000)]
      [] name = "Growth Dividend" ->
            [signals |-> {"STRONG BUY", "BUY"}, sectors |-> {},
             discount_min |-> Num(0), yield_min |-> Num(5), roe_min |-> Num(15),
             dpr_max |-> Num(1000)]
      [] name = "Safe Income" ->
            [signals |-> {"STRONG BUY", "BUY", "ACCUMULATE"}, sectors |-> {},
             discount_min |-> Num(0), yield_min |-> Num(5), roe_min |-> Num(10),
             dpr_max |-> Num(1000)]

\* C13: the table shown by the first run after a preset was applied, whatever
\* the filter state before, and the table shown after the widgets were set by
\* hand to the preset's table values, are both the evaluation of the table
\* values on the processed collection.
C13_PresetEqualsManualSetting ==
    \A name \in {"High Yield", "Value Play", "Growth Dividend", "Safe Income"} :
        (/\ stage = "rendered"
         /\ \/ event = name
            \/ event = "filter" /\ KeyedState(session) = TableState(name))
        => df_filtered \in {sort_values(apply_filters(df_processed, TableState(name),
                                                      query_raises)) :
                               query_raises \in BOOLEAN}

\* Value Play applied over two instruments: one is kept, one is dropped
C13_Witness ==
    /\ event = "Value Play"
    /\ stage = "rendered"
    /\ Len(df_processed) = 2
    /\ Len(df_filtered) = 1

\* C14: clear_filters leaves the all-permissive state (no signal or sector
\* selection, the three minimums 0, dpr_max 1000), and the evaluation that
\* follows returns every row of the processed collection.
C14_ClearFiltersAllPermissive ==
    event = "btn_clear" =>
        /\ KeyedState(session) =
              [signals |-> {}, sectors |-> {}, discount_min |-> Num(0),
               yield_min |-> Num(0), roe_min |-> Num(0), dpr_max |-> Num(1000)]
        /\ stage = "rendered" =>
              /\ filters = KeyedState(session)
              /\ Len(df_filtered) = Len(df_processed)
              /\ \A i \in DOMAIN df_processed :
                    \E j \in DOMAIN df_filtered : df_filtered[j] = df_processed[i]

\* after CLEAR the table holds a row without ROE and DPR and a row without
\* Discount and DivYield
C14_Witness ==
    /\ event = "btn_clear"
    /\ stage = "rendered"
    /\ \E i, j \in DOMAIN df_filtered :
          /\ isna(df_filtered[i].ROE) /\ isna(df_filtered[i].DPR)
          /\ isna(df_filtered[j].Discount) /\ isna(df_filtered[j].DivYield)

\* the in-memory collection of the session, empty before the first run
collection(s) == IF "df" \in DOMAIN s THEN s["df"] ELSE <<>>

\* C15: no two rows of the in-memory collection carry the same Ticker,
\* whatever sequence of Add New, Edit Data (an edit that changes the Ticker
\* included) and Delete Data has run
C15_TickersUnique ==
    LET d == collection(session)
    IN \A i, j \in DOMAIN d : i # j => d[i].Ticker # d[j].Ticker

\* the tickers of a collection
tickers_of(d) == {d[i].Ticker : i \in DOMAIN d}

\* a step of the manage dialog: a submit or a confirmed delete
DialogStep ==
    /\ stage = "rendered"
    /\ stage' = "rerun"
    /\ event' \in {"Add New", "Edit Data", "Delete Data"}

\* the save of the dialog step reported in r wrote every record
SaveSucceeded(r) == r.save_calls = <<TRUE>> /\ r.upsert_errors = {}

\* C16: a deleted instrument is removed from the store: once Delete Data of
\* a ticker has run and its save has succeeded, the collection no longer
\* holds the ticker and neither does the store, so that a load (a new
\* session) does not return it
C16_DeletedTickerLeavesStore ==
    (/\ report.action = "Delete Data"
     /\ SaveSucceeded(report)
     /\ report.selected \notin tickers_of(collection(session)))
    => report.selected \notin tickers_of(load_csv(store))

\* two LastUpdated cells denote the same instant, as a string or a Timestamp
SameInstant(x, y) ==
    IF isna(x) \/ isna(y) THEN isna(x) /\ isna(y) ELSE x[Len(x)] = y[Len(y)]

\* row b reproduces the manually-maintained fields of row a
SameManualFields(a, b) ==
    /\ \A k \in {"BVPS", "EPS", "ROE", "DivTTM", "DPR", "ManualFairValue"} :
          SameValue(a[k], b[k])
    /\ a.Interim = b.Interim
    /\ a.Final = b.Final
    /\ SameInstant(a.LastUpdated, b.LastUpdated)

\* the rows of d that are one instrument: a ticker, held by no other row
instruments(d) ==
    {i \in DOMAIN d : d[i].Ticker # "" /\ \A j \in DOMAIN d : d[j].Ticker = d[i].Ticker => j = i}

\* C17: round trip: once the dialog has saved the collection with save_csv
\* and every write succeeded, load_csv returns for every instrument of the
\* collection a row with the same BVPS, EPS, ROE, DivTTM, DPR,
\* ManualFairValue, Interim, Final and LastUpdated
C17_SaveLoadRoundTrip ==
    (report.action # "" /\ SaveSucceeded(report)) =>
       LET d == collection(session)
           loaded == load_csv(store)
       IN \A i \in instruments(d) :
             \E j \in DOMAIN loaded :
                /\ loaded[j].Ticker = d[i].Ticker
                /\ SameManualFields(d[i], loaded[j])

\* C18: when a write to the store fails for a record during the save of a
\* dialog step, save_csv returns False to the dialog and the dialog does not
\* report the add, edit or delete as done
C18_WriteFailureIsReported ==
    report.upsert_errors # {} =>
       /\ report.save_calls = <<FALSE>>
       /\ report.toast \notin {"SAVED SUCCESSFULLY", "DELETED"}

\* the save of the dialog step reported in r failed: save_csv returned False
\* or the upsert of a record raised
SaveFailed(r) == r.save_calls = <<FALSE>> \/ r.upsert_errors # {}

\* the row carries the ticker typed in the form and the values of a form
FormRow(row, ticker) ==
    /\ row.Ticker = ticker
    /\ row.LastUpdated = Now
    /\ \E form \in FormInputs :
          \A k \in {"BVPS", "EPS", "ROE", "DivTTM", "DPR", "Interim", "Final"} :
             row[k] = form[k]

\* d2 is what the operation reported in r makes of the collection d: the new
\* row appended, the selected row rewritten, the selected row removed
OperationResult(d, d2, r) ==
    LET first == CHOOSE i \in DOMAIN d :
                    /\ d[i].Ticker = r.selected
                    /\ \A j \in 1..(i - 1) : d[j].Ticker # r.selected
    IN CASE r.action = "Add New" /\ r.errors \subseteq {"Failed to save data"} ->
               /\ Len(d2) = Len(d) + 1
               /\ SubSeq(d2, 1, Len(d)) = d
               /\ FormRow(d2[Len(d2)], r.ticker)
         [] r.action = "Edit Data" /\ r.selected # "" ->
               /\ Len(d2) = Len(d)
               /\ \A i \in DOMAIN d : i # first => d2[i] = d[i]
               /\ FormRow(d2[first], r.ticker)
         [] r.action = "Delete Data" ->
               /\ Len(d2) = Len(d) - 1
               /\ \A i \in DOMAIN d2 : d2[i] = IF i < first THEN d[i] ELSE d[i + 1]
         [] OTHER -> d2 = d

\* the collection without the two columns the market data fills
without_market_data(d) ==
    [i \in DOMAIN d |-> [k \in DOMAIN d[i] \ {"CurrentPrice", "Sector"} |-> d[i][k]]]

\* C19: a persistence failure does not lose the edit: the add, edit or
\* delete whose save fails leaves its result in the in-memory collection,
\* and the pass that follows keeps it (only the market data columns are
\* refreshed): the collection is not reloaded from the store
C19_FailedSaveKeepsEdit ==
    [][/\ (DialogStep /\ SaveFailed(report'))
          => OperationResult(collection(session), collection(session'), report')
       /\ (stage = "rerun" /\ report.action # "" /\ SaveFailed(report))
          => without_market_data(collection(session'))
                = without_market_data(collection(session))]_vars

\* an Add New whose save_csv returned False, after the pass that followed:
\* the collection holds the new ticker and the store does not
C19_Witness ==
    /\ stage = "rendered"
    /\ report.action = "Add New"
    /\ report.save_calls = <<FALSE>>
    /\ report.ticker \in tickers_of(collection(session))
    /\ report.ticker \notin tickers_of(load_csv(store))

\* the dialog step reported in r is one the rules reject: an Add New of an
\* empty or already-present ticker, an Edit Data with no stock selected
Rejected(r) ==
    \/ r.action = "Add New" /\ r.errors \cap {"TICKER REQUIRED", "ALREADY EXISTS"} # {}
    \/ r.action = "Edit Data" /\ r.selected = ""

\* C20: a rejected operation changes nothing: an Add New with an empty or
\* already-present ticker and an Edit Data with no stock selected leave the
\* collection and the store as they were, issue no save, and show no
\* success message
C20_RejectedBeforeAnyMutation ==
    [][(DialogStep /\ Rejected(report'))
       => /\ collection(session') = collection(session)
          /\ store' = store
          /\ report'.save_calls = <<>>
          /\ report'.toast # "SAVED SUCCESSFULLY"]_vars

\* the provider gives nothing for the ticker: every call raises
LookupFails(answer) ==
    answer.fast_info[1] = "raise" /\ answer.info[1] = "raise" /\ answer.history[1] = "raise"

\* C21: fetch_all_tickers returns one result per requested ticker, in the
\* order of the request; a ticker whose lookup fails has CurrentPrice
\* undefined, Sector "Unknown" and an error recorded in its result; and the
\* results of the other tickers are what they are when that lookup succeeds
C21_OneResultPerTickerFailuresRecorded ==
    fetched.at # -1 =>
       LET tickers == fetched.tickers
           results == fetched.results
       IN /\ Len(results) = Len(tickers)
          /\ \A i \in DOMAIN results : results[i].Ticker = tickers[i]
          /\ \A i \in DOMAIN tickers :
                LookupFails(market[tickers[i]]) =>
                   /\ isna(results[i].CurrentPrice)
                   /\ results[i].Sector = "Unknown"
                   /\ results[i].Error # NoError
                   /\ LET quoted == [market EXCEPT ![tickers[i]] = Quote(Num(100), "Energy")]
                      IN \A j \in DOMAIN tickers \ {i} :
                            fetch_all_tickers(tickers, quoted)[j] = results[j]

\* the session holds a recorded fetch time
Recorded(s) == "last_yf_fetch" \in DOMAIN s

\* a batch of lookups ran in the step
BatchRan == fetched' # fetched

\* the step is a click on REFRESH
RefreshStep == stage = "rendered" /\ stage' = "rerun" /\ event' = "btn_refresh"

\* C22: fetching is throttled by staleness.  A run fetches only if the
\* session records no fetch or the recorded one is more than 600 s old, and
\* it records the time of its batch; so a batch that follows another with no
\* REFRESH in between (the record still there) comes more than 600 s after
\* it.  Only REFRESH removes the record, and the run after REFRESH fetches
C22_FetchThrottledByStaleness ==
    [][/\ BatchRan =>
             /\ Recorded(session) => clock - session["last_yf_fetch"] > 600
             /\ Recorded(session) => clock - fetched.at > 600
             /\ fetched'.at = clock
             /\ ~RefreshStep => Recorded(session') /\ session'["last_yf_fetch"] = clock
       /\ (Recorded(session) /\ ~Recorded(session')) => RefreshStep
       /\ RefreshStep => ~Recorded(session')
       /\ (stage = "rerun" /\ event = "btn_refresh" /\ collection(session) # <<>>)
             => /\ fetched'.at = clock
                /\ fetched'.tickers # <<>>
                /\ Recorded(session') /\ session'["last_yf_fetch"] = clock]_vars

\* a second batch, made by a run more than 600 s after the first one, with
\* no REFRESH at that instant
C22_Witness ==
    /\ stage = "rendered"
    /\ event = "btn_manage"
    /\ fetched.at > 600
    /\ Recorded(session) /\ session["last_yf_fetch"] = fetched.at

\* the fields a pass computes
DerivedFields ==
    {"GrahamFairValue", "FairValue", "UsesManualFV", "Discount", "DivYield", "Signal"}

\* a processed collection with other values in its derived fields
OtherDerived(d) ==
    [i \in DOMAIN d |->
        [d[i] EXCEPT !.GrahamFairValue = Num(1), !.FairValue = Num(1),
                     !.UsesManualFV = ~@, !.Discount = Num(1), !.DivYield = Num(1),
                     !.Signal = IF @ = "STRONG BUY" THEN "WAIT" ELSE "STRONG BUY"]]

\* two collections have the same rows in their derived fields
SameDerived(a, b) ==
    /\ Len(a) = Len(b)
    /\ \A i \in DOMAIN a : \A k \in DerivedFields : a[i][k] = b[i][k]

\* C23: the pass is a pure, idempotent function of the manual fields and
\* the market data: a second pass over the same collection gives the same
\* derived fields, a pass over the processed collection changes none of
\* them, and it gives them whatever derived values the collection carried
C23_ProcessIsPureAndIdempotent ==
    Processed =>
       /\ SameDerived(process_dataframe(df), df_processed)
       /\ SameDerived(process_dataframe(df_processed), df_processed)
       /\ SameDerived(process_dataframe(OtherDerived(df_processed)), df_processed)

\* a processed instrument with a label other than WAIT, whose fair value is
\* the Graham value
C23_Witness ==
    /\ Processed
    /\ \E i \in DOMAIN df_processed :
          /\ df_processed[i].Signal \in {"STRONG BUY", "BUY", "ACCUMULATE"}
          /\ ~df_processed[i].UsesManualFV
          /\ notna(df_processed[i].GrahamFairValue)

\* C24: a manual fair value entered in the dialog takes effect: after an
\* Edit Data of an existing instrument (its ticker left as it is) and the
\* pass that follows, the instrument has FairValue = v and UsesManualFV
\* where the form's MANUAL FAIR VALUE v is positive, and the Graham value
\* where it is 0
C24_ManualFairValueTakesEffect ==
    (/\ stage = "rendered"
     /\ report.action = "Edit Data"
     /\ report.selected # ""
     /\ report.ticker = report.selected)
    => \A i \in DOMAIN df_processed :
          (i \in instruments(df_processed) /\ df_processed[i].Ticker = report.selected) =>
             IF GT(report.manual_fair_value, Num(0))
             THEN /\ SameValue(df_processed[i].FairValue, report.manual_fair_value)
                  /\ df_processed[i].UsesManualFV
             ELSE /\ SameValue(df_processed[i].FairValue, df_processed[i].GrahamFairValue)
                  /\ ~df_processed[i].UsesManualFV

----------------------------------------------------------------------------
(* The STRONG BUY rule shown in the METHODOLOGY tab                        *)

\* the rule of the METHODOLOGY tab: Discount >= 25%, ROE >= 15%, Yield >= 8%
MethodologyStrongBuy(discount, div_yield, roe) ==
    /\ GE(discount, Pct(25))
    /\ GE(roe, Num(15))
    /\ GE(div_yield, Pct(8))

\* C25: an instrument is labelled STRONG BUY, by either form of the
\* classifier, only if Discount >= 25%, ROE >= 15% and Yield >= 8%, as the
\* METHODOLOGY tab states.
C25_StrongBuyOnlyAsMethodologyStates ==
    /\ (BatchDone /\ cls.batch[1] = "STRONG BUY")
          => MethodologyStrongBuy(cls.discount, cls.div_yield, cls.roe)
    /\ (ScalarDone /\ cls.scalar = "STRONG BUY")
          => MethodologyStrongBuy(cls.discount, cls.div_yield, cls.roe)

----------------------------------------------------------------------------
(* A requested preset is applied once                                      *)

\* a run stopped at apply_preset(name) and asked for the next one
PresetCallStep ==
    /\ stage = "rendered"
    /\ stage' = "rerun"
    /\ event' \in PresetNameInputs

\* the run that follows a stopped one
NextPassStep == stage = "rerun" /\ stage' = "rendered"

\* the user changed one filter widget
ManualChangeStep ==
    /\ stage = "rendered"
    /\ stage' = "rendered"
    /\ event' = "filter"

NoPresetPending(s) == "_pending_preset" \notin DOMAIN s

\* C26: after apply_preset(name) with a known name the name is pending and
\* the filter state is still the previous one; the next pass writes the
\* preset's values to the filter state and removes the pending flag, so no
\* preset is pending at a filter evaluation; a later manual change of one
\* widget changes that key alone, the preset is not written again; and
\* apply_preset with a name FILTER_PRESETS does not have changes neither the
\* pending flag nor the filter state.
C26_PresetAppliedExactlyOnce ==
    [][/\ (PresetCallStep /\ event' \in DOMAIN FILTER_PRESETS) =>
             /\ "_pending_preset" \in DOMAIN session'
             /\ session'["_pending_preset"] = event'
             /\ KeyedState(session') = KeyedState(session)
       /\ (NextPassStep /\ ~NoPresetPending(session)) =>
             /\ KeyedState(session') = BundleState(session["_pending_preset"])
             /\ filters' = BundleState(session["_pending_preset"])
       /\ (NextPassStep /\ NoPresetPending(session) /\ FilterKeys \subseteq DOMAIN session) =>
             /\ KeyedState(session') = KeyedState(session)
             /\ filters' = KeyedState(session)
       /\ stage' = "rendered" =>
             /\ NoPresetPending(session')
             /\ filters' = KeyedState(session')
       /\ ManualChangeStep =>
             \E key \in FilterKeys :
                /\ session'[key] \in FilterChoices[key]
                /\ \A k \in FilterKeys \ {key} : session'[k] = session[k]
       /\ (PresetCallStep /\ event' \notin DOMAIN FILTER_PRESETS) =>
             session' = session
      ]_vars

\* Value Play was applied, MIN YIELD was then set to 8 by hand, and
\* apply_preset was called with a name FILTER_PRESETS does not have: the
\* manual value is still there and nothing is pending
C26_Witness ==
    /\ event = "Dividend King"
    /\ stage = "rerun"
    /\ NoPresetPending(session)
    /\ KeyedState(session) = [BundleState("Value Play") EXCEPT !.yield_min = Num(8)]

----------------------------------------------------------------------------
(* Undefined values and the numeric clauses                                *)

\* the numeric clauses of a filter state that are active, by field
ActiveNumericFields(f) ==
    (IF GT(f.discount_min, Num(0)) THEN {"Discount"} ELSE {})
    \cup (IF GT(f.yield_min, Num(0)) THEN {"DivYield"} ELSE {})
    \cup (IF GT(f.roe_min, Num(0)) THEN {"ROE"} ELSE {})
    \cup (IF LT(f.dpr_max, Num(1000)) THEN {"DPR"} ELSE {})

NumericFields == {"Discount", "DivYield", "ROE", "DPR"}

Kept(row) == \E j \in DOMAIN df_filtered : df_filtered[j] = row

\* the row passes the signal and sector clauses and, on every active
\* numeric clause whose field it defines, the comparison
PassesOnDefinedFields(row, f) ==
    /\ f.signals # {} => row.Signal \in f.signals
    /\ f.sectors # {} => row.Sector \in f.sectors
    /\ (GT(f.discount_min, Num(0)) /\ notna(row.Discount))
          => GE(row.Discount, Div(f.discount_min, Num(100)))
    /\ (GT(f.yield_min, Num(0)) /\ notna(row.DivYield))
          => GE(row.DivYield, Div(f.yield_min, Num(100)))
    /\ (GT(f.roe_min, Num(0)) /\ notna(row.ROE)) => GE(row.ROE, f.roe_min)
    /\ (LT(f.dpr_max, Num(1000)) /\ notna(row.DPR)) => LE(row.DPR, f.dpr_max)

\* C27: apply_filters drops every row whose Discount, DivYield, ROE or DPR
\* is undefined while the clause on that field is active (discount_min > 0,
\* yield_min > 0, roe_min > 0, dpr_max < 1000), and a row that passes every
\* clause on the fields it defines and has undefined values only in fields
\* whose clause is inactive is kept.
C27_UndefinedExcludedOnlyByActiveClauses ==
    stage = "filtered" =>
        \A i \in DOMAIN df_processed :
            LET row == df_processed[i]
                undefined == {c \in NumericFields : isna(row[c])}
            IN /\ undefined \cap ActiveNumericFields(filters) # {} => ~Kept(row)
               /\ (/\ undefined \cap ActiveNumericFields(filters) = {}
                   /\ PassesOnDefinedFields(row, filters)) => Kept(row)

\* a discount clause and no ROE clause: the row without a discount is
\* dropped and the row without ROE is kept
C27_Witness ==
    /\ stage = "filtered"
    /\ GT(filters.discount_min, Num(0))
    /\ ~GT(filters.roe_min, Num(0))
    /\ \E i, j \in DOMAIN df_processed :
          /\ isna(df_processed[i].Discount) /\ ~Kept(df_processed[i])
          /\ isna(df_processed[j].ROE) /\ Kept(df_processed[j])

----------------------------------------------------------------------------
(* The classifier is monotone in discount and in ROE                       *)

\* WAIT FOR DIP < WAIT < ACCUMULATE < BUY < STRONG BUY
LabelRank(label) ==
    CASE label = "WAIT FOR DIP" -> 0
      [] label = "WAIT" -> 1
      [] label = "ACCUMULATE" -> 2
      [] label = "BUY" -> 3
      [] label = "STRONG BUY" -> 4

\* the triple is defined and its yield is at least 0.08
MonotoneCase ==
    /\ notna(cls.discount)
    /\ notna(cls.roe)
    /\ GE(cls.div_yield, Pct(8))

HigherDiscounts == {d \in DiscountInputs : GE(d, cls.discount)}

HigherRoes == {r \in RoeInputs : GE(r, cls.roe)}

\* C28: for defined inputs with div_yield >= 0.08, in both forms of the
\* classifier, a higher discount with the same div_yield and roe, and a
\* higher roe with the same div_yield and discount, never give a label of
\* lower rank in WAIT FOR DIP < WAIT < ACCUMULATE < BUY < STRONG BUY.
C28_ClassifierMonotone ==
    /\ (BatchDone /\ MonotoneCase) =>
          /\ \A d \in HigherDiscounts :
                LabelRank(assign_signals_vectorized(<<d>>, <<cls.div_yield>>, <<cls.roe>>)[1])
                   >= LabelRank(cls.batch[1])
          /\ \A r \in HigherRoes :
                LabelRank(assign_signals_vectorized(<<cls.discount>>, <<cls.div_yield>>, <<r>>)[1])
                   >= LabelRank(cls.batch[1])
    /\ (ScalarDone /\ MonotoneCase) =>
          /\ \A d \in HigherDiscounts :
                LabelRank(assign_signal([Discount |-> d, DivYield |-> cls.div_yield,
                                         ROE |-> cls.roe]))
                   >= LabelRank(cls.scalar)
          /\ \A r \in HigherRoes :
                LabelRank(assign_signal([Discount |-> cls.discount,
                                         DivYield |-> cls.div_yield, ROE |-> r]))
                   >= LabelRank(cls.scalar)

\* discount 0.15, div_yield 0.08 and roe 9 are an ACCUMULATE in both forms;
\* a higher roe makes it a BUY and a higher discount leaves it an ACCUMULATE
C28_Witness ==
    /\ cls.discount = Pct(15)
    /\ cls.div_yield = Pct(8)
    /\ cls.roe = Num(9)
    /\ cls.batch = <<"ACCUMULATE">>
    /\ cls.scalar = "ACCUMULATE"
    /\ \E r \in HigherRoes :
          assign_signals_vectorized(<<cls.discount>>, <<cls.div_yield>>, <<r>>)[1] = "BUY"
    /\ \E d \in HigherDiscounts :
          /\ d # cls.discount
          /\ assign_signal([Discount |-> d, DivYield |-> cls.div_yield, ROE |-> cls.roe])
                = "ACCUMULATE"

----------------------------------------------------------------------------
(* An instrument added while the market data is fresh                      *)

\* the rows of the collection that have no price
Unpriced(s) == {i \in DOMAIN collection(s) : isna(collection(s)[i].CurrentPrice)}

\* SAVE ADD NEW accepted the row
AddNewAccepted ==
    /\ stage = "rendered"
    /\ stage' = "rerun"
    /\ event' = "Add New"
    /\ report'.errors = {}

\* the session records a fetch that is at most 600 s old
FreshData == Recorded(session) /\ clock - session["last_yf_fetch"] <= 600

\* a script run reached the table
PassCompleted == stage' = "rendered" /\ clock' = clock

\* C29: the row that an accepted Add New appends has no price.  While the
\* session records a fetch that is not stale (REFRESH, which removes the
\* record, was not pressed), no run fetches: an unpriced instrument stays
\* unpriced and every pass shows it with undefined CurrentPrice, Discount
\* and DivYield and the Signal WAIT.  An instrument receives its price only
\* in a run that fetches, which a session with a recorded fetch makes only
\* more than 600 s after it.
C29_AddedWhileFreshStaysUnpriced ==
    [][/\ AddNewAccepted =>
             /\ Len(collection(session')) = Len(collection(session)) + 1
             /\ collection(session')[Len(collection(session'))].Ticker = report'.ticker
             /\ Len(collection(session')) \in Unpriced(session')
       /\ FreshData =>
             /\ ~BatchRan
             /\ Unpriced(session) \subseteq Unpriced(session')
             /\ PassCompleted =>
                   \A i \in Unpriced(session') :
                      /\ df_processed'[i].Ticker = collection(session')[i].Ticker
                      /\ isna(df_processed'[i].CurrentPrice)
                      /\ isna(df_processed'[i].Discount)
                      /\ isna(df_processed'[i].DivYield)
                      /\ df_processed'[i].Signal = "WAIT"
       /\ \A i \in Unpriced(session) \ Unpriced(session') :
             /\ BatchRan
             /\ fetched'.at = clock
             /\ \E j \in DOMAIN fetched'.tickers :
                   fetched'.tickers[j] = collection(session)[i].Ticker
             /\ Recorded(session) => clock - session["last_yf_fetch"] > 600
      ]_vars

\* AAAA, which the market prices, was added to a collection fetched less
\* than 600 s before; time has passed, the fetch is still fresh and a later
\* pass shows AAAA unpriced, a WAIT
C29_Witness ==
    /\ stage = "rendered"
    /\ event = "btn_manage"
    /\ report.action = "Add New"
    /\ report.errors = {}
    /\ report.ticker = "AAAA"
    /\ Recorded(session)
    /\ clock > session["last_yf_fetch"]
    /\ clock - session["last_yf_fetch"] <= 600
    /\ \E i \in DOMAIN df_processed :
          /\ df_processed[i].Ticker = "AAAA"
          /\ isna(df_processed[i].CurrentPrice)
          /\ df_processed[i].Signal = "WAIT"

\* the same instrument after the fetch of a stale session: priced
C29_Priced ==
    /\ stage = "rendered"
    /\ report.action = "Add New"
    /\ report.errors = {}
    /\ report.ticker = "AAAA"
    /\ fetched.at > 600
    /\ \E i \in DOMAIN df_processed :
          /\ df_processed[i].Ticker = "AAAA"
          /\ notna(df_processed[i].CurrentPrice)

----------------------------------------------------------------------------
(* The filter state of a session that has set no filter                    *)

\* a pass of a session state that holds none of the six filter keys and no
\* pending preset
NeverSetPass ==
    /\ stage = "rerun"
    /\ stage' = "rendered"
    /\ FilterKeys \cap DOMAIN session = {}
    /\ NoPresetPending(session)

\* C30: the filter state that the pass builds when no filter value was ever
\* set is the state that clear_filters() establishes: signals and sectors
\* empty, discount_min = yield_min = roe_min = 0, dpr_max = 1000; and the
\* table of that pass holds every processed row.
C30_DefaultStateIsClearedState ==
    [][NeverSetPass =>
          /\ filters' = KeyedState(clear_filters(session))
          /\ filters' = [signals |-> {}, sectors |-> {}, discount_min |-> Num(0),
                         yield_min |-> Num(0), roe_min |-> Num(0), dpr_max |-> Num(1000)]
          /\ Len(df_filtered') = Len(df_processed')
          /\ \A i \in DOMAIN df_processed' :
                \E j \in DOMAIN df_filtered' : df_filtered'[j] = df_processed'[i]
      ]_vars

\* the first pass of a session, no filter touched: the table holds an
\* instrument with a payout ratio above 100 and one without payout ratio
C30_Witness ==
    /\ stage = "rendered"
    /\ event = ""
    /\ filters.dpr_max = Num(1000)
    /\ Len(df_filtered) = 2
    /\ \E i, j \in DOMAIN df_filtered :
          /\ GT(df_filtered[i].DPR, Num(100))
          /\ isna(df_filtered[j].DPR)

====
